---- MODULE Spec2Model ----
(***************************************************************************)
(* Model of the UniTune worker's request admission layer: the token-bucket *)
(* RateLimiter (security/rate_limiter.js) backed by the RATE_LIMIT KV      *)
(* namespace, and the metadata cache (fetchAndCacheMetadata) backed by the *)
(* SONG_CACHE namespace.  Times are in milliseconds, as Date.now().        *)
(***************************************************************************)
EXTENDS Integers, Sequences, FiniteSets, TLC

\* ---------------------------------------------------------------- constants

MAX_TOKENS == 60
REFILL_RATE == 1
WINDOW_SIZE == 60

\* a TTL of half the window: shorter than the time an empty bucket needs to fill
RlTtlHalfWindow == (WINDOW_SIZE \div 2) * 1000

\* expirationTtl: WINDOW_SIZE * 2 seconds, on the store's millisecond clock
RL_TTL_MS == WINDOW_SIZE * 2 * 1000

\* ------------------------------------------------------------------- bounds

\* Date.now() of the first state (any positive instant)
StartTime == 10000
\* number of checkLimit invocations in one behaviour
MaxCalls == 3
\* number of clock advances in one behaviour
MaxTicks == 2

\* clock advances: half a second, a second, and the store's TTL
TickSet == {500, 1000, RL_TTL_MS}
\* difference between an invocation's Date.now() and the store's clock
SkewSet == {0, -1500}

\* client IPs handed to checkLimit; NoIp is the empty string
NoIp == ""
IPs == {"1.2.3.4"}
\* concurrent invocations of the worker
Procs == {1, 2}

Min(a, b) == IF a < b THEN a ELSE b
Max(a, b) == IF a > b THEN a ELSE b

\* -------------------------------------------------------------------- state

VARIABLES
    now,        \* the clock, ms
    kvBound,    \* env.RATE_LIMIT is bound
    kv,         \* RATE_LIMIT namespace: ip -> stored entry
    pc,         \* per invocation: "idle", "put" (between kv.get and kv.put), "done"
    call,       \* per invocation: the locals of checkLimit
    result,     \* per invocation: what checkLimit returned last
    calls,      \* invocations started
    ticks,      \* clock advances made
    \* observers of a run of non-overlapping checks (no program state)
    lastT,      \* Date.now() of the latest check
    prev,       \* the entry the latest check found stored, and the check before it
    burst,      \* the checks since one that found no stored state
    win,        \* a time window opened at some check, and the admissions in it
    shadow,     \* the state of the same limiter over a store whose entries never expire
    \* the metadata cache and the /s/ requests
    cacheBound, \* env.SONG_CACHE is bound
    cache,      \* SONG_CACHE namespace: identifier -> stored entry
    mpc,        \* per request: "idle", "fetch" (awaiting the upstream), "put", "done"
    mcall,      \* per request: the locals of fetchAndCacheMetadata, and what it met
    mret,       \* per request: what fetchAndCacheMetadata returned, and the response
    reqs,       \* /s/ requests started
    \* the worker's fetch handler
    share,      \* the /s/ request inside handleShareLink: its locals and its response
    wk          \* the request inside fetch: its route, its position, its response

rlVars == <<now, kvBound, kv, pc, call, result, calls, ticks>>
obsVars == <<lastT, prev, burst, win, shadow>>

\* the never-expiring store holds nothing for the IP
NoShadow ==
    [present |-> FALSE, tokens |-> 0, lastRefill |-> 0, requestCount |-> 0, allowed |-> TRUE]
metaVars == <<cacheBound, cache, mpc, mcall, mret, reqs>>
httpVars == <<share, wk>>

ObsInit ==
    /\ lastT = StartTime
    /\ prev = [valid |-> FALSE, tokens |-> 0, lastRefill |-> 0, t |-> 0]
    /\ burst = [start |-> StartTime, n |-> 0]
    /\ win = [open |-> FALSE, start |-> 0, n |-> 0, last |-> 0]
    /\ shadow = NoShadow

vars == <<now, kvBound, kv, pc, call, result, calls, ticks, lastT, prev, burst, win, shadow,
          cacheBound, cache, mpc, mcall, mret, reqs, share, wk>>

\* an absent key of the namespace
NoEntry == [present |-> FALSE, tokens |-> 0, lastRefill |-> 0, requestCount |-> 0, expiresAt |-> 0]

\* the locals of an invocation that is not running
NoCall == [ip |-> NoIp, t |-> 0, state |-> [tokens |-> 0, lastRefill |-> 0, requestCount |-> 0], fault |-> "none"]

NoResult == [allowed |-> TRUE, retryAfter |-> 0]

\* ------------------------------------------------------------- rate limiter

\* kv.get(key): the stored entry unless the key is absent or its TTL has run out
KvGet(ip) ==
    IF kv[ip].present /\ now < kv[ip].expiresAt
    THEN [found |-> TRUE,
          state |-> [tokens |-> kv[ip].tokens, lastRefill |-> kv[ip].lastRefill,
                     requestCount |-> kv[ip].requestCount]]
    ELSE [found |-> FALSE, state |-> NoCall.state]

\* kv.put(key, JSON.stringify(state), {expirationTtl: WINDOW_SIZE * 2})
KvPut(ip, state) ==
    [kv EXCEPT ![ip] = [present |-> TRUE, tokens |-> state.tokens,
                        lastRefill |-> state.lastRefill,
                        requestCount |-> state.requestCount,
                        expiresAt |-> now + RL_TTL_MS]]

\* first request from an IP: a full bucket
InitialState(t) == [tokens |-> MAX_TOKENS, lastRefill |-> t, requestCount |-> 0]

TokensToAddAtMostOne(state, t) == IF t - state.lastRefill >= 1000 THEN 1 ELSE 0

\* Math.floor(((now - state.lastRefill) / 1000) * REFILL_RATE)
TokensToAdd(state, t) == ((t - state.lastRefill) * REFILL_RATE) \div 1000

RefillUncapped(state, t) ==
    IF TokensToAdd(state, t) > 0
    THEN [state EXCEPT !.tokens = @ + TokensToAdd(state, t), !.lastRefill = t]
    ELSE state

RefillNoStamp(state, t) ==
    IF TokensToAdd(state, t) > 0
    THEN [state EXCEPT !.tokens = Min(MAX_TOKENS, @ + TokensToAdd(state, t))]
    ELSE state

\* lastRefill moves at every check
RefillAlwaysStamps(state, t) ==
    [state EXCEPT !.tokens = Min(MAX_TOKENS, @ + Max(0, TokensToAdd(state, t))),
                  !.lastRefill = t]

\* refill tokens (up to max); lastRefill moves only when tokens were added
Refill(state, t) ==
    IF TokensToAdd(state, t) > 0
    THEN [state EXCEPT !.tokens = Min(MAX_TOKENS, @ + TokensToAdd(state, t)),
                       !.lastRefill = t]
    ELSE state

\* the token is taken and the request is not counted
ConsumeNoCount(state) == [state EXCEPT !.tokens = @ - 1]

\* state.tokens -= 1; state.requestCount += 1
Consume(state) == [state EXCEPT !.tokens = @ - 1, !.requestCount = @ + 1]

HasTokenStrict(state) == state.tokens > 1

\* if (state.tokens >= 1)
HasToken(state) == state.tokens >= 1

\* the waiting time rounded down, not up: Math.floor(tokensNeeded / (2 * REFILL_RATE))
RetryAfterNone == 1 \div (2 * REFILL_RATE)

\* Math.ceil(tokensNeeded / REFILL_RATE), tokensNeeded = 1
RetryAfter == (1 + REFILL_RATE - 1) \div REFILL_RATE

FailClosed == [allowed |-> FALSE, retryAfter |-> RetryAfter]

\* the early return and the catch block: allow the request
FailOpen == [allowed |-> TRUE, retryAfter |-> 0]

\* checkLimit up to the return of kv.get: the guard, the read, the refill
CheckLimitGet(p, ip, skew, getThrows) ==
    /\ pc[p] \in {"idle", "done"}
    /\ calls' = calls + 1
    /\ IF ip = NoIp \/ ~kvBound
       THEN /\ pc' = [pc EXCEPT ![p] = "done"]
            /\ call' = [call EXCEPT ![p] = [NoCall EXCEPT !.ip = ip, !.fault = "nokv"]]
            /\ result' = [result EXCEPT ![p] = FailOpen]
       ELSE IF getThrows
       THEN /\ pc' = [pc EXCEPT ![p] = "done"]
            /\ call' = [call EXCEPT ![p] = [NoCall EXCEPT !.ip = ip, !.fault = "get"]]
            /\ result' = [result EXCEPT ![p] = FailOpen]
       ELSE LET t == now + skew
                got == KvGet(ip)
                state == IF got.found THEN got.state ELSE InitialState(t)
            IN /\ pc' = [pc EXCEPT ![p] = "put"]
               /\ call' = [call EXCEPT ![p] = [ip |-> ip, t |-> t,
                                               state |-> Refill(state, t),
                                               fault |-> "none"]]
               /\ result' = [result EXCEPT ![p] = NoResult]
    /\ UNCHANGED <<now, kvBound, kv, ticks>>
    /\ UNCHANGED metaVars

\* checkLimit from the token test to its return: consume or reject, and kv.put
CheckLimitPut(p, putThrows) ==
    /\ pc[p] = "put"
    /\ pc' = [pc EXCEPT ![p] = "done"]
    /\ IF putThrows
       THEN /\ result' = [result EXCEPT ![p] = FailOpen]
            /\ call' = [call EXCEPT ![p] = [NoCall EXCEPT !.ip = call[p].ip, !.fault = "put"]]
            /\ kv' = kv
       ELSE IF HasToken(call[p].state)
       THEN /\ kv' = KvPut(call[p].ip, Consume(call[p].state))
            /\ result' = [result EXCEPT ![p] = [allowed |-> TRUE, retryAfter |-> 0]]
            /\ call' = [call EXCEPT ![p] = [NoCall EXCEPT !.ip = call[p].ip]]
       ELSE /\ kv' = KvPut(call[p].ip, call[p].state)
            /\ result' = [result EXCEPT ![p] = [allowed |-> FALSE, retryAfter |-> RetryAfter]]
            /\ call' = [call EXCEPT ![p] = [NoCall EXCEPT !.ip = call[p].ip]]
    /\ UNCHANGED <<now, kvBound, calls, ticks>>
    /\ UNCHANGED metaVars

\* time passes
Tick(d) ==
    /\ ticks < MaxTicks
    /\ ticks' = ticks + 1
    /\ now' = now + d
    /\ UNCHANGED <<kvBound, kv, pc, call, result, calls>>
    /\ UNCHANGED metaVars

\* token counts of the entries the first state may hold
WarmTokens == {0, 1, 59}

\* the entry left by MAX_TOKENS - k back-to-back admitted requests at StartTime
WarmEntry(k) ==
    [present |-> TRUE, tokens |-> k, lastRefill |-> StartTime,
     requestCount |-> MAX_TOKENS - k, expiresAt |-> StartTime + RL_TTL_MS]

RlInit ==
    /\ now = StartTime
    /\ kvBound \in BOOLEAN
    /\ kv \in [IPs -> {NoEntry} \cup {WarmEntry(k) : k \in WarmTokens}]
    /\ pc = [p \in Procs |-> "idle"]
    /\ call = [p \in Procs |-> NoCall]
    /\ result = [p \in Procs |-> NoResult]
    /\ calls = 0
    /\ ticks = 0

\* ----------------------------------------------------------- metadata cache

\* Date.now() - cached.timestamp < 86400000
FRESH_MS == 86400000
\* expirationTtl: 86400 (seconds)
CACHE_TTL_S == 86400
CACHE_TTL_MS == CACHE_TTL_S * 1000

\* number of /s/ requests in one behaviour
MaxReqs == 3

\* share-link identifiers (decodable), and the metadata objects of the upstream
Ids == {"c3BvdGlmeTp0cmFjazoxMjM"}
Data == {"m1", "m2"}
NoData == "null"

\* what one upstream GET does: a 2xx with a JSON object, a 2xx whose JSON body is
\* null, a 2xx whose body does not parse, a non-2xx, a network exception
Upstream == {"ok", "okNull", "okBadJson", "non2xx", "netError"}

\* clock advances around the freshness boundary
MetaTickSet == {1, FRESH_MS - 1}

\* an absent key of SONG_CACHE
NoCached == [present |-> FALSE, data |-> NoData, timestamp |-> 0, expiresAt |-> 0]

\* an entry that is no {data, timestamp} record: it has no timestamp
Malformed == [present |-> TRUE, data |-> NoData, timestamp |-> 0, expiresAt |-> StartTime + CACHE_TTL_MS]

NoMCall == [id |-> "", bot |-> FALSE, metadata |-> NoData, seen |-> NoCached, readAt |-> 0,
            hit |-> FALSE, fault |-> "none", up |-> "none", nFetch |-> 0, wrote |-> FALSE]

NoMRet == [kind |-> "none", value |-> NoData, status |-> 0, page |-> "none"]

\* null, and the empty string: both are falsy
NoUrl == <<>>

\* no response yet
NoResponse == [status |-> 0, page |-> "none", message |-> ""]

\* no upstream answer
NoUp == [kind |-> "none", status |-> 0, body |-> NoData]

\* no User-Agent header
NoUA == [present |-> FALSE, value |-> <<>>]

\* what the app encoded (no program state): a platform:type:id triple, some
\* other text, or nothing (the identifier did not come from an encoder)
NoSrc == [kind |-> "raw", platform |-> <<>>, type |-> <<>>, id |-> <<>>, text |-> <<>>]

\* no /s/ request inside handleShareLink
NoShare ==
    [stage |-> "Idle", src |-> NoSrc, ident |-> <<>>, ua |-> NoUA, musicUrl |-> NoUrl,
     metadata |-> NoData, classified |-> FALSE, isBot |-> FALSE, renderers |-> {},
     nMeta |-> 0, nGet |-> 0, nFetch |-> 0, nPut |-> 0, up |-> NoUp, resp |-> NoResponse]

\* a request header that is absent: headers.get(name) is null
NoHeader == [present |-> FALSE, value |-> <<>>]

\* a request without CF-Connecting-IP, X-Forwarded-For and X-Real-IP
NoIpHeaders == [cf |-> NoHeader, xff |-> NoHeader, xri |-> NoHeader]

\* the headers of a response that the claims read: which are set, and their values
NoHeaders == [names |-> {}, retryAfter |-> 0, limit |-> 0, remaining |-> 0, reset |-> 0]

\* fetch has returned no response
NoWResp == [status |-> 0, page |-> "none", message |-> "", headers |-> NoHeaders]

\* no request inside fetch
NoWk ==
    [stage |-> "idle", n |-> 0, path |-> <<>>, method |-> "", query |-> "", ua |-> NoUA,
     ip |-> NoIp, src |-> NoSrc, checked |-> FALSE, handler |-> "", upCalls |-> 0,
     up |-> NoUp, escaped |-> FALSE, resp |-> NoWResp, ipHeaders |-> NoIpHeaders]

\* no request is inside the worker
HttpIdle ==
    /\ share = NoShare
    /\ wk = NoWk

\* env.SONG_CACHE.get(cacheKey, 'json'): the store's expiry is a backstop on the
\* store's side; a read past expiresAt may still be served the entry (evicted = FALSE)
CacheGet(id, evicted) ==
    IF cache[id].present /\ (now < cache[id].expiresAt \/ ~evicted)
    THEN cache[id]
    ELSE NoCached

FreshInclusive(cached, t) ==
    cached.present /\ cached.timestamp # 0 /\ t - cached.timestamp <= FRESH_MS

\* cached && cached.timestamp && (Date.now() - cached.timestamp < 86400000)
Fresh(cached, t) ==
    cached.present /\ cached.timestamp # 0 /\ t - cached.timestamp < FRESH_MS

\* a write that keeps the timestamp of the entry it replaces
CachePutKeepsTimestamp(id, metadata) ==
    [cache EXCEPT ![id] = [present |-> TRUE, data |-> metadata,
                           timestamp |-> IF cache[id].present /\ cache[id].timestamp # 0
                                         THEN cache[id].timestamp ELSE now,
                           expiresAt |-> now + CACHE_TTL_MS]]

\* env.SONG_CACHE.put(cacheKey, JSON.stringify({data, timestamp: Date.now()}),
\*                    {expirationTtl: 86400})
CachePut(id, metadata) ==
    [cache EXCEPT ![id] = [present |-> TRUE, data |-> metadata, timestamp |-> now,
                           expiresAt |-> now + CACHE_TTL_MS]]

\* handleShareLink after fetchAndCacheMetadata, as seen by the client of fetch():
\* an exception leaves handleShareLink and the un-awaited `return handleShareLink(...)`
\* of fetch as a rejected promise; null gives the 404 page; metadata is rendered
ShareResponse(kind, value, bot) ==
    IF kind = "threw"
    THEN [kind |-> kind, value |-> NoData, status |-> 500, page |-> "uncaught"]
    ELSE IF value = NoData
    THEN [kind |-> kind, value |-> value, status |-> 404, page |-> "error"]
    ELSE [kind |-> kind, value |-> value, status |-> 200,
          page |-> IF bot THEN "ssr" ELSE "client"]

\* fetchAndCacheMetadata up to the upstream fetch: the cache read and the hit
FetchMetaRead(m, id, bot, getThrows, evicted) ==
    /\ mpc[m] \in {"idle", "done"}
    /\ reqs < MaxReqs
    /\ reqs' = reqs + 1
    /\ IF cacheBound /\ getThrows
       THEN /\ mpc' = [mpc EXCEPT ![m] = "done"]
            /\ mcall' = [mcall EXCEPT ![m] = [NoMCall EXCEPT !.id = id, !.bot = bot,
                                                             !.seen = cache[id], !.readAt = now,
                                                             !.fault = "get"]]
            /\ mret' = [mret EXCEPT ![m] = ShareResponse("threw", NoData, bot)]
       ELSE IF cacheBound /\ Fresh(CacheGet(id, evicted), now)
       THEN /\ mpc' = [mpc EXCEPT ![m] = "done"]
            /\ mcall' = [mcall EXCEPT ![m] = [NoMCall EXCEPT !.id = id, !.bot = bot,
                                                             !.seen = cache[id], !.readAt = now,
                                                             !.hit = TRUE]]
            /\ mret' = [mret EXCEPT ![m] =
                           ShareResponse("returned", CacheGet(id, evicted).data, bot)]
       ELSE /\ mpc' = [mpc EXCEPT ![m] = "fetch"]
            /\ mcall' = [mcall EXCEPT ![m] = [NoMCall EXCEPT !.id = id, !.bot = bot,
                                                             !.seen = cache[id], !.readAt = now]]
            /\ mret' = [mret EXCEPT ![m] = NoMRet]
    /\ UNCHANGED <<cacheBound, cache>>
    /\ UNCHANGED rlVars
    /\ UNCHANGED obsVars /\ UNCHANGED httpVars

\* the upstream GET resolves: response.ok, response.json(), or the catch block
FetchMetaUpstream(m, up, d) ==
    /\ mpc[m] = "fetch"
    /\ IF up = "ok" /\ cacheBound
       THEN /\ mpc' = [mpc EXCEPT ![m] = "put"]
            /\ mcall' = [mcall EXCEPT ![m].metadata = d, ![m].up = up, ![m].nFetch = @ + 1]
            /\ mret' = mret
       ELSE /\ mpc' = [mpc EXCEPT ![m] = "done"]
            /\ mcall' = [mcall EXCEPT ![m].metadata = IF up = "ok" THEN d ELSE NoData,
                                      ![m].up = up, ![m].nFetch = @ + 1]
            /\ mret' = [mret EXCEPT ![m] =
                           ShareResponse("returned", IF up = "ok" THEN d ELSE NoData,
                                         mcall[m].bot)]
    /\ UNCHANGED <<cacheBound, cache, reqs>>
    /\ UNCHANGED rlVars
    /\ UNCHANGED obsVars /\ UNCHANGED httpVars

\* the cache write and the return; a throwing put lands in the catch block
FetchMetaPut(m, putThrows) ==
    /\ mpc[m] = "put"
    /\ mpc' = [mpc EXCEPT ![m] = "done"]
    /\ IF putThrows
       THEN /\ cache' = cache
            /\ mcall' = [mcall EXCEPT ![m].fault = "put"]
            /\ mret' = [mret EXCEPT ![m] = ShareResponse("returned", NoData, mcall[m].bot)]
       ELSE /\ cache' = CachePut(mcall[m].id, mcall[m].metadata)
            /\ mcall' = [mcall EXCEPT ![m].wrote = TRUE]
            /\ mret' = [mret EXCEPT ![m] =
                           ShareResponse("returned", mcall[m].metadata, mcall[m].bot)]
    /\ UNCHANGED <<cacheBound, reqs>>
    /\ UNCHANGED rlVars
    /\ UNCHANGED obsVars /\ UNCHANGED httpVars

\* no /s/ request, no metadata cache
MetaIdle ==
    /\ cacheBound = FALSE
    /\ cache = [id \in Ids |-> NoCached]
    /\ mpc = [m \in Procs |-> "idle"]
    /\ mcall = [m \in Procs |-> NoMCall]
    /\ mret = [m \in Procs |-> NoMRet]
    /\ reqs = 0
    /\ HttpIdle

MetaInit ==
    /\ now = StartTime
    /\ kvBound = TRUE
    /\ kv = [ip \in IPs |-> NoEntry]
    /\ pc = [p \in Procs |-> "idle"]
    /\ call = [p \in Procs |-> NoCall]
    /\ result = [p \in Procs |-> NoResult]
    /\ calls = 0
    /\ ticks = 0
    /\ ObsInit
    /\ cacheBound \in BOOLEAN
    /\ cache \in [Ids -> {NoCached, Malformed}]
    /\ mpc = [m \in Procs |-> "idle"]
    /\ mcall = [m \in Procs |-> NoMCall]
    /\ mret = [m \in Procs |-> NoMRet]
    /\ reqs = 0
    /\ HttpIdle

MetaTick(d) == Tick(d) /\ UNCHANGED obsVars /\ UNCHANGED httpVars

MetaNext ==
    \/ \E m \in Procs, id \in Ids, bot \in BOOLEAN, getThrows \in BOOLEAN, evicted \in BOOLEAN :
          FetchMetaRead(m, id, bot, getThrows, evicted)
    \/ \E m \in Procs, up \in Upstream, d \in Data : FetchMetaUpstream(m, up, d)
    \/ \E m \in Procs, putThrows \in BOOLEAN : FetchMetaPut(m, putThrows)
    \/ \E d \in MetaTickSet : MetaTick(d)

\* concurrent /s/ requests with decodable identifiers, store faults, any upstream
SpecMeta == MetaInit /\ [][MetaNext]_vars

\* SONG_CACHE bound and holding nothing: every first read is a miss
MissInit == MetaInit /\ cacheBound /\ cache = [id \in Ids |-> NoCached]

\* concurrent /s/ requests over a cache that starts empty
SpecMiss == MissInit /\ [][MetaNext]_vars

Init == RlInit /\ ObsInit /\ MetaIdle

Next ==
    \/ \E p \in Procs, ip \in IPs \cup {NoIp}, skew \in SkewSet, getThrows \in BOOLEAN :
          calls < MaxCalls /\ CheckLimitGet(p, ip, skew, getThrows) /\ UNCHANGED obsVars /\ UNCHANGED httpVars
    \/ \E p \in Procs, putThrows \in BOOLEAN : CheckLimitPut(p, putThrows) /\ UNCHANGED obsVars /\ UNCHANGED httpVars
    \/ \E d \in TickSet : Tick(d) /\ UNCHANGED obsVars /\ UNCHANGED httpVars

\* concurrent checks, store faults and clock skew, from a cold or warm store
Spec == Init /\ [][Next]_vars

\* ------------------------------------------- non-overlapping checks of one IP

\* number of checks in a run of non-overlapping checks
MaxSeqCalls == 62

SeqIp == "1.2.3.4"

SeqInit ==
    /\ now = StartTime
    /\ kvBound = TRUE
    /\ kv = [ip \in IPs |-> NoEntry]
    /\ pc = [p \in Procs |-> "idle"]
    /\ call = [p \in Procs |-> NoCall]
    /\ result = [p \in Procs |-> NoResult]
    /\ calls = 0
    /\ ticks = 0
    /\ ObsInit
    /\ MetaIdle

\* a check begins: healthy store, no skew, no other check in flight
SeqGet ==
    /\ calls < MaxSeqCalls
    /\ CheckLimitGet(1, SeqIp, 0, FALSE)
    /\ lastT' = now
    /\ prev' = [valid |-> kv[SeqIp].present, tokens |-> kv[SeqIp].tokens,
                lastRefill |-> kv[SeqIp].lastRefill, t |-> lastT]
    /\ burst' = IF KvGet(SeqIp).found THEN burst ELSE [start |-> now, n |-> 0]
    /\ UNCHANGED <<win, shadow>>
    /\ UNCHANGED httpVars

\* the check ends
SeqPut ==
    /\ CheckLimitPut(1, FALSE)
    /\ burst' = [burst EXCEPT !.n = @ + 1]
    /\ UNCHANGED <<lastT, prev, win, shadow>>
    /\ UNCHANGED httpVars

SeqNext ==
    \/ SeqGet
    \/ SeqPut
    \/ \E d \in TickSet : Tick(d) /\ UNCHANGED obsVars /\ UNCHANGED httpVars

\* non-overlapping checks of one IP, healthy store, monotonic clock
SpecSeq == SeqInit /\ [][SeqNext]_vars

\* the store holds the live entry of an IP that has one token left, or none
RetryInit ==
    /\ now = StartTime
    /\ kvBound = TRUE
    /\ kv \in [IPs -> {WarmEntry(0), WarmEntry(1)}]
    /\ pc = [p \in Procs |-> "idle"]
    /\ call = [p \in Procs |-> NoCall]
    /\ result = [p \in Procs |-> NoResult]
    /\ calls = 0
    /\ ticks = 0
    /\ ObsInit
    /\ MetaIdle

\* non-overlapping checks of one IP whose bucket is empty or nearly so
SpecRetry == RetryInit /\ [][SeqNext]_vars

\* ----------------------------------------------- admissions in a time window

\* clock advances between the checks of a window
WinTickSet == {500, 1000}

\* a check begins; it may open the window (a window starts at its first request)
WinGet(openWin) ==
    /\ calls < MaxSeqCalls
    /\ CheckLimitGet(1, SeqIp, 0, FALSE)
    /\ win' = IF openWin /\ ~win.open
              THEN [open |-> TRUE, start |-> now, n |-> 0, last |-> now]
              ELSE win
    /\ UNCHANGED <<lastT, prev, burst, shadow>>
    /\ UNCHANGED httpVars

\* the check ends; an admission at the check's Date.now() counts in the window
WinPut ==
    /\ CheckLimitPut(1, FALSE)
    /\ win' = IF win.open /\ result'[1].allowed
              THEN [win EXCEPT !.n = @ + 1, !.last = call[1].t]
              ELSE win
    /\ UNCHANGED <<lastT, prev, burst, shadow>>
    /\ UNCHANGED httpVars

WinTick(d) ==
    /\ pc[1] # "put"
    /\ Tick(d)
    /\ UNCHANGED obsVars /\ UNCHANGED httpVars

WinNext ==
    \/ \E openWin \in BOOLEAN : WinGet(openWin)
    \/ WinPut
    \/ \E d \in WinTickSet : WinTick(d)

\* non-overlapping checks of one IP, with the admissions of one window counted
SpecWin == SeqInit /\ [][WinNext]_vars

\* ------------------------------------------------------------------ strings

\* A string is the sequence of its character codes.  The characters of a literal
\* are written one by one and numbered by their place in ASCII (32 .. 126); the
\* grave accent (96) is named, not written.
Ascii ==
    <<
      " ", "!", "\"", "#", "$", "%", "&", "'", "(", ")", "*", "+", ",", "-", ".", "/", "0",
      "1", "2", "3", "4", "5", "6", "7", "8", "9", ":", ";", "<", "=", ">", "?", "@", "A",
      "B", "C", "D", "E", "F", "G", "H", "I", "J", "K", "L", "M", "N", "O", "P", "Q", "R",
      "S", "T", "U", "V", "W", "X", "Y", "Z", "[", "\\", "]", "^", "_", "grave", "a", "b", "c",
      "d", "e", "f", "g", "h", "i", "j", "k", "l", "m", "n", "o", "p", "q", "r", "s", "t",
      "u", "v", "w", "x", "y", "z", "{", "|", "}", "~"
    >>

Code(c) == 31 + (CHOOSE k \in 1..Len(Ascii) : Ascii[k] = c)

Str(cs) == [k \in 1..Len(cs) |-> Code(cs[k])]

\* the characters the code names
Ch ==
    [colon |-> Code(":"), eq |-> Code("="), plus |-> Code("+"), slash |-> Code("/"),
     minus |-> Code("-"), underscore |-> Code("_"), http |-> Str(<<"h", "t", "t", "p">>)]

\* String.prototype.toLowerCase on a string of Latin-1 characters
ToLowerCase(s) ==
    [k \in 1..Len(s) |->
        IF (65 <= s[k] /\ s[k] <= 90) \/ (192 <= s[k] /\ s[k] <= 222 /\ s[k] # 215)
        THEN s[k] + 32
        ELSE s[k]]

\* String.prototype.startsWith / includes
StartsWith(s, t) == Len(t) <= Len(s) /\ SubSeq(s, 1, Len(t)) = t

Includes(s, t) == \E k \in 0..(Len(s) - Len(t)) : SubSeq(s, k + 1, k + Len(t)) = t

\* String.prototype.split(sep) for a one-character separator: the pieces between
\* the separators, empty pieces included
RECURSIVE Split(_, _)
Split(s, sep) ==
    IF \A k \in 1..Len(s) : s[k] # sep
    THEN <<s>>
    ELSE LET k == CHOOSE j \in 1..Len(s) : s[j] = sep /\ \A h \in 1..(j - 1) : s[h] # sep
         IN <<SubSeq(s, 1, k - 1)>> \o Split(SubSeq(s, k + 1, Len(s)), sep)

\* Array.prototype.join(sep)
RECURSIVE Join(_, _)
Join(parts, sep) ==
    IF Len(parts) = 0 THEN <<>>
    ELSE IF Len(parts) = 1 THEN parts[1]
    ELSE parts[1] \o <<sep>> \o Join(Tail(parts), sep)

\* ------------------------------------------------------------------- Base64

\* the standard alphabet: the character of sextet v is B64Alphabet[v + 1]
B64Alphabet ==
    Str(<<
          "A", "B", "C", "D", "E", "F", "G", "H", "I", "J", "K", "L", "M", "N", "O", "P",
          "Q", "R", "S", "T", "U", "V", "W", "X", "Y", "Z", "a", "b", "c", "d", "e", "f",
          "g", "h", "i", "j", "k", "l", "m", "n", "o", "p", "q", "r", "s", "t", "u", "v",
          "w", "x", "y", "z", "0", "1", "2", "3", "4", "5", "6", "7", "8", "9", "+", "/"
    >>)

\* the sextet of a character of the alphabet
B64Value == [c \in {B64Alphabet[j] : j \in 1..64} |-> (CHOOSE j \in 1..64 : B64Alphabet[j] = c) - 1]

\* bytes to sextets, three bytes to four characters, "=" filling the last group
RECURSIVE B64Groups(_)
B64Groups(b) ==
    IF Len(b) = 0 THEN <<>>
    ELSE IF Len(b) = 1
    THEN <<B64Alphabet[(b[1] \div 4) + 1], B64Alphabet[((b[1] % 4) * 16) + 1],
           Ch.eq, Ch.eq>>
    ELSE IF Len(b) = 2
    THEN <<B64Alphabet[(b[1] \div 4) + 1],
           B64Alphabet[((b[1] % 4) * 16 + (b[2] \div 16)) + 1],
           B64Alphabet[((b[2] % 16) * 4) + 1], Ch.eq>>
    ELSE <<B64Alphabet[(b[1] \div 4) + 1],
           B64Alphabet[((b[1] % 4) * 16 + (b[2] \div 16)) + 1],
           B64Alphabet[((b[2] % 16) * 4 + (b[3] \div 64)) + 1],
           B64Alphabet[(b[3] % 64) + 1]>> \o B64Groups(SubSeq(b, 4, Len(b)))

\* the share link's identifier as the app writes it: Base64 of the text in the
\* URL-safe alphabet ("-" for "+", "_" for "/"), with the "=" padding or without
B64UrlEncode(text, padding) ==
    LET std == B64Groups(text)
        safe == [k \in 1..Len(std) |->
                    IF std[k] = Ch.plus THEN Ch.minus
                    ELSE IF std[k] = Ch.slash THEN Ch.underscore
                    ELSE std[k]]
    IN IF padding THEN safe ELSE SelectSeq(safe, LAMBDA c : c # Ch.eq)

\* sextets to bytes; a last group of two or three characters gives one or two bytes
RECURSIVE B64Bytes(_)
B64Bytes(v) ==
    IF Len(v) < 2 THEN <<>>
    ELSE IF Len(v) = 2 THEN <<v[1] * 4 + (v[2] \div 16)>>
    ELSE IF Len(v) = 3 THEN <<v[1] * 4 + (v[2] \div 16), (v[2] % 16) * 16 + (v[3] \div 4)>>
    ELSE <<v[1] * 4 + (v[2] \div 16), (v[2] % 16) * 16 + (v[3] \div 4),
           (v[3] % 4) * 64 + v[4]>> \o B64Bytes(SubSeq(v, 5, Len(v)))

\* atob(data): ASCII whitespace is dropped; when the length is a multiple of 4 up
\* to two trailing "=" are dropped; a length of 1 modulo 4 or a character outside
\* the alphabet throws InvalidCharacterError (ok = FALSE)
atob(data) ==
    LET d1 == SelectSeq(data, LAMBDA c : c \notin {9, 10, 12, 13, 32})
        n1 == Len(d1)
        cut == IF n1 % 4 # 0 \/ n1 = 0 \/ d1[n1] # Ch.eq THEN 0
               ELSE IF d1[n1 - 1] = Ch.eq THEN 2 ELSE 1
        d2 == SubSeq(d1, 1, n1 - cut)
        valid == Len(d2) % 4 # 1 /\ \A k \in 1..Len(d2) : d2[k] \in DOMAIN B64Value
        sextets == [k \in 1..Len(d2) |-> B64Value[d2[k]]]
    IN IF valid THEN [ok |-> TRUE, value |-> B64Bytes(sextets)]
       ELSE [ok |-> FALSE, value |-> <<>>]

\* ---------------------------------------------------------- share-link decode

\* the urls object of reconstructMusicUrl, row by row: the key, the text of the
\* template before its first placeholder, and whether the template is
\* `${type}/${id}` after it (typed) or `${id}` alone
UrlTemplates ==
    <<
       [key |-> Str(<<"s", "p", "o", "t", "i", "f", "y">>),
        head |-> Str(<<"h", "t", "t", "p", "s", ":", "/", "/", "o", "p", "e", "n", ".", "s", "p", "o", "t", "i", "f", "y", ".", "c", "o", "m", "/">>),
        typed |-> TRUE],
       [key |-> Str(<<"t", "i", "d", "a", "l">>),
        head |-> Str(<<"h", "t", "t", "p", "s", ":", "/", "/", "t", "i", "d", "a", "l", ".", "c", "o", "m", "/", "b", "r", "o", "w", "s", "e", "/">>),
        typed |-> TRUE],
       [key |-> Str(<<"a", "p", "p", "l", "e", "m", "u", "s", "i", "c">>),
        head |-> Str(<<"h", "t", "t", "p", "s", ":", "/", "/", "m", "u", "s", "i", "c", ".", "a", "p", "p", "l", "e", ".", "c", "o", "m", "/", "u", "s", "/", "s", "o", "n", "g", "/">>),
        typed |-> FALSE],
       [key |-> Str(<<"y", "o", "u", "t", "u", "b", "e", "m", "u", "s", "i", "c">>),
        head |-> Str(<<"h", "t", "t", "p", "s", ":", "/", "/", "m", "u", "s", "i", "c", ".", "y", "o", "u", "t", "u", "b", "e", ".", "c", "o", "m", "/", "w", "a", "t", "c", "h", "?", "v", "=">>),
        typed |-> FALSE],
       [key |-> Str(<<"y", "o", "u", "t", "u", "b", "e">>),
        head |-> Str(<<"h", "t", "t", "p", "s", ":", "/", "/", "y", "o", "u", "t", "u", "b", "e", ".", "c", "o", "m", "/", "w", "a", "t", "c", "h", "?", "v", "=">>),
        typed |-> FALSE],
       [key |-> Str(<<"d", "e", "e", "z", "e", "r">>),
        head |-> Str(<<"h", "t", "t", "p", "s", ":", "/", "/", "w", "w", "w", ".", "d", "e", "e", "z", "e", "r", ".", "c", "o", "m", "/">>),
        typed |-> TRUE],
       [key |-> Str(<<"a", "m", "a", "z", "o", "n", "m", "u", "s", "i", "c">>),
        head |-> Str(<<"h", "t", "t", "p", "s", ":", "/", "/", "m", "u", "s", "i", "c", ".", "a", "m", "a", "z", "o", "n", ".", "c", "o", "m", "/", "t", "r", "a", "c", "k", "s", "/">>),
        typed |-> FALSE]
    >>

\* the urls object for a type and an id: its own keys and their strings
urls(type, id) ==
    [k \in 1..Len(UrlTemplates) |->
        <<UrlTemplates[k].key,
          UrlTemplates[k].head \o
              (IF UrlTemplates[k].typed THEN type \o <<Ch.slash>> ELSE <<>>) \o id>>]

\* the keys without a capital letter that urls inherits from Object.prototype
InheritedKeys ==
    {Str(<<"c", "o", "n", "s", "t", "r", "u", "c", "t", "o", "r">>),
     Str(<<"_", "_", "p", "r", "o", "t", "o", "_", "_">>)}

\* what urls[key] is for an inherited key (the Object function, Object.prototype):
\* a truthy value that is no URL; its text stands for it here
InheritedValue == Str(<<"[", "o", "b", "j", "e", "c", "t", "]">>)

\* urls[platform.toLowerCase()] || null
reconstructMusicUrl(platform, type, id) ==
    LET key == ToLowerCase(platform)
        table == urls(type, id)
        own == {k \in 1..Len(table) : table[k][1] = key}
    IN IF own # {} THEN table[CHOOSE k \in own : TRUE][2]
       ELSE IF key \in InheritedKeys THEN InheritedValue
       ELSE NoUrl

\* parts.length >= 2: a platform and a type are enough
HasTripleLoose(parts) == Len(parts) >= 2

\* parts.length >= 3
HasTriple(parts) == Len(parts) >= 3

\* parts[2]: the text up to the next colon
IdOfPartsThird(parts) == parts[3]

\* parts.slice(2).join(':')
IdOfParts(parts) == Join(SubSeq(parts, 3, Len(parts)), Ch.colon)

\* the response of an error page: getErrorPage(message) with a status
ErrorResponse(status, message) == [status |-> status, page |-> "error", message |-> message]

\* handleShareLink up to the call of fetchAndCacheMetadata: the padding, the
\* URL-safe alphabet, atob, the platform:type:id test and reconstructMusicUrl;
\* resp is the response returned on the way, NoResponse when musicUrl was found
DecodeShareLink(pathAfterS) ==
    LET padded == pathAfterS \o [k \in 1..((4 - (Len(pathAfterS) % 4)) % 4) |-> Ch.eq]
        std == [k \in 1..Len(padded) |->
                   IF padded[k] = Ch.minus THEN Ch.plus
                   ELSE IF padded[k] = Ch.underscore THEN Ch.slash
                   ELSE padded[k]]
        decoded == atob(std)
        parts == Split(decoded.value, Ch.colon)
        triple == /\ Includes(decoded.value, <<Ch.colon>>)
                  /\ ~StartsWith(decoded.value, Ch.http)
                  /\ HasTriple(parts)
        musicUrl == IF decoded.ok /\ triple
                    THEN reconstructMusicUrl(parts[1], parts[2], IdOfParts(parts))
                    ELSE NoUrl
    IN IF ~decoded.ok
       THEN [musicUrl |-> NoUrl, resp |-> ErrorResponse(400, "Invalid share link format.")]
       ELSE IF triple /\ musicUrl = NoUrl
       THEN [musicUrl |-> NoUrl, resp |-> ErrorResponse(400, "Unsupported music platform.")]
       ELSE IF musicUrl = NoUrl
       THEN [musicUrl |-> NoUrl, resp |-> ErrorResponse(400, "Invalid share link.")]
       ELSE [musicUrl |-> musicUrl, resp |-> NoResponse]

\* ---------------------------------------------------------------- bot detector

botPatterns ==
    <<
       Str(<<"f", "a", "c", "e", "b", "o", "o", "k", "e", "x", "t", "e", "r", "n", "a", "l", "h", "i", "t">>),
       Str(<<"W", "h", "a", "t", "s", "A", "p", "p">>),
       Str(<<"T", "w", "i", "t", "t", "e", "r", "b", "o", "t">>),
       Str(<<"T", "e", "l", "e", "g", "r", "a", "m", "B", "o", "t">>),
       Str(<<"S", "l", "a", "c", "k", "b", "o", "t">>),
       Str(<<"L", "i", "n", "k", "e", "d", "I", "n", "B", "o", "t">>),
       Str(<<"D", "i", "s", "c", "o", "r", "d", "b", "o", "t">>),
       Str(<<"S", "k", "y", "p", "e", "U", "r", "i", "P", "r", "e", "v", "i", "e", "w">>),
       Str(<<"S", "n", "a", "p", "c", "h", "a", "t">>),
       Str(<<"P", "i", "n", "t", "e", "r", "e", "s", "t">>),
       Str(<<"G", "o", "o", "g", "l", "e", "b", "o", "t">>),
       Str(<<"b", "i", "n", "g", "b", "o", "t">>)
    >>

\* the patterns are compared as they are written, without lower-casing them
isSocialMediaBotAsWritten(userAgent) ==
    /\ userAgent # <<>>
    /\ \E k \in 1..Len(botPatterns) : Includes(ToLowerCase(userAgent), botPatterns[k])

\* !userAgent is false; else some pattern, lower-cased, is in the lower-cased string
isSocialMediaBot(userAgent) ==
    /\ userAgent # <<>>
    /\ \E k \in 1..Len(botPatterns) :
          Includes(ToLowerCase(userAgent), ToLowerCase(botPatterns[k]))

\* ------------------------------------------------------- /s/ request handler

\* one answer of the upstream API: a network error, or a status with a body that
\* is a metadata object, the JSON null, or no JSON at all
UpAnswers ==
    {[kind |-> "netError", status |-> 0, body |-> NoData]} \cup
    {[kind |-> "response", status |-> st, body |-> b] :
        st \in {200, 404, 500}, b \in {"m1", NoData, "badjson"}}
\* response.ok taken for every status below 500
ResponseOkBelow500(status) == status < 500

\* response.ok
ResponseOk(status) == 200 <= status /\ status <= 299

\* the User-Agent headers of the requests: the strings below, and no header
UserAgents ==
    <<
        Str(<<"f", "a", "c", "e", "b", "o", "o", "k", "e", "x", "t", "e", "r", "n", "a", "l",
              "h", "i", "t", "/", "1", ".", "1">>),
        Str(<<"M", "o", "z", "i", "l", "l", "a", "/", "5", ".", "0", " ", "(", "i", "P", "h",
              "o", "n", "e", ";", " ", "C", "P", "U", " ", "i", "P", "h", "o", "n", "e", " ",
              "O", "S", " ", "1", "6", "_", "0", " ", "l", "i", "k", "e", " ", "M", "a", "c",
              " ", "O", "S", " ", "X", ")", " ", "A", "p", "p", "l", "e", "W", "e", "b", "K",
              "i", "t", "/", "6", "0", "5", ".", "1", ".", "1", "5", " ", "(", "K", "H", "T",
              "M", "L", ",", " ", "l", "i", "k", "e", " ", "G", "e", "c", "k", "o", ")", " ",
              "V", "e", "r", "s", "i", "o", "n", "/", "1", "6", ".", "0", " ", "M", "o", "b",
              "i", "l", "e", "/", "1", "5", "E", "1", "4", "8", " ", "S", "a", "f", "a", "r",
              "i", "/", "6", "0", "4", ".", "1">>),
        <<>>,
        Str(<<"W", "h", "a", "t", "s", "A", "p", "p", "/", "2", ".", "2", "3", ".", "2", "0",
              ".", "0">>),
        Str(<<"T", "W", "I", "T", "T", "E", "R", "B", "O", "T", "/", "1", ".", "0">>),
        Str(<<"T", "e", "l", "e", "g", "r", "a", "m", "B", "o", "t", " ", "(", "l", "i", "k",
              "e", " ", "T", "w", "i", "t", "t", "e", "r", "B", "o", "t", ")">>),
        Str(<<"S", "l", "a", "c", "k", "b", "o", "t", "-", "L", "i", "n", "k", "E", "x", "p",
              "a", "n", "d", "i", "n", "g", " ", "1", ".", "0">>),
        Str(<<"L", "i", "n", "k", "e", "d", "I", "n", "B", "o", "t", "/", "1", ".", "0">>),
        Str(<<"M", "o", "z", "i", "l", "l", "a", "/", "5", ".", "0", " ", "(", "c", "o", "m",
              "p", "a", "t", "i", "b", "l", "e", ";", " ", "D", "i", "s", "c", "o", "r", "d",
              "b", "o", "t", "/", "2", ".", "0", ")">>),
        Str(<<"s", "k", "y", "p", "e", "u", "r", "i", "p", "r", "e", "v", "i", "e", "w", " ",
              "P", "r", "e", "v", "i", "e", "w", "/", "0", ".", "5">>),
        Str(<<"S", "n", "a", "p", "c", "h", "a", "t", "/", "1", "0", ".", "7", "7", ".", "5",
              ".", "5", "9">>),
        Str(<<"P", "i", "n", "t", "e", "r", "e", "s", "t", "/", "0", ".", "2">>),
        Str(<<"M", "o", "z", "i", "l", "l", "a", "/", "5", ".", "0", " ", "(", "c", "o", "m",
              "p", "a", "t", "i", "b", "l", "e", ";", " ", "G", "o", "o", "g", "l", "e", "B",
              "o", "t", "/", "2", ".", "1", ")">>),
        Str(<<"M", "o", "z", "i", "l", "l", "a", "/", "5", ".", "0", " ", "(", "c", "o", "m",
              "p", "a", "t", "i", "b", "l", "e", ";", " ", "b", "i", "n", "g", "b", "o", "t",
              "/", "2", ".", "0", ")">>),
        Str(<<"c", "u", "r", "l", "/", "8", ".", "4", ".", "0">>),
        Str(<<"M", "o", "z", "i", "l", "l", "a", "/", "5", ".", "0", " ", "(", "X", "1", "1",
              ";", " ", "L", "i", "n", "u", "x", " ", "x", "8", "6", "_", "6", "4", ")", " ",
              "F", "i", "r", "e", "f", "o", "x", "/", "1", "2", "0", ".", "0">>)
    >>

UASet == {NoUA} \cup {[present |-> TRUE, value |-> UserAgents[k]] : k \in 1..Len(UserAgents)}
\* a crawler, and no header
CoreUASet == {NoUA, [present |-> TRUE, value |-> UserAgents[1]]}

\* the keys of the URL table
PlatformKeys == {UrlTemplates[k].key : k \in 1..Len(UrlTemplates)}

\* the /s/{identifier} paths of the requests, each with what was encoded.
\* Triples: every key of the table in lower case, in capitals and capitalised,
\* and five names that are no key, with three types and four ids.  Texts that
\* are no triple: no colon, two parts, a URL, nothing.  Identifiers that are no
\* Base64: a character outside the alphabet, a length of 1 modulo 4, padding in
\* the middle.
ShareRequests ==
    LET upper(x) == [k \in 1..Len(x) |-> IF 97 <= x[k] /\ x[k] <= 122 THEN x[k] - 32 ELSE x[k]]
        capital(x) == [k \in 1..Len(x) |->
                          IF k = 1 /\ 97 <= x[k] /\ x[k] <= 122 THEN x[k] - 32 ELSE x[k]]
        platforms == PlatformKeys \cup {upper(x) : x \in PlatformKeys}
                       \cup {capital(x) : x \in PlatformKeys}
                       \cup {Str(<<"n", "a", "p", "s", "t", "e", "r">>),
                             Str(<<"c", "o", "n", "s", "t", "r", "u", "c", "t", "o", "r">>),
                             Str(<<"_", "_", "p", "r", "o", "t", "o", "_", "_">>),
                             Str(<<"h", "t", "t", "p", "s">>),
                             <<>>}
        types == {Str(<<"t", "r", "a", "c", "k">>),
                  Str(<<"a", "l", "b", "u", "m">>),
                  Str(<<"a", ":", "b">>)}
        ids == {Str(<<"1", "2", "3">>), Str(<<"4", "5", "6">>),
                Str(<<"1", ":", "2">>), Str(<<"~", "?">>)}
        texts == {Str(<<"h", "e", "l", "l", "o">>),
                  Str(<<"s", "p", "o", "t", "i", "f", "y", ":", "t", "r", "a", "c", "k">>),
                  Str(<<"h", "t", "t", "p", "s", ":", "/", "/", "o", "p", "e", "n", ".", "s", "p", "o", "t", "i", "f", "y", ".", "c", "o", "m", "/", "t", "r", "a", "c", "k", "/", "1", "2", "3">>),
                  <<>>}
        raw == {Str(<<"!", "!", "!", "!">>),
                Str(<<"a", "b", "c", "d", "e">>),
                Str(<<"c", "3", "B", "v", "=", "d", "G", "l">>)}
        triple(x, t, i) == x \o <<Ch.colon>> \o t \o <<Ch.colon>> \o i
    IN {[src |-> [kind |-> "triple", platform |-> x, type |-> t, id |-> i,
                  text |-> triple(x, t, i)],
         ident |-> B64UrlEncode(triple(x, t, i), padding)] :
           x \in platforms, t \in types, i \in ids, padding \in BOOLEAN} \cup
       {[src |-> [NoSrc EXCEPT !.kind = "text", !.text = x],
         ident |-> B64UrlEncode(x, padding)] : x \in texts, padding \in BOOLEAN} \cup
       {[src |-> NoSrc, ident |-> x] : x \in raw}

\* the path of the share link of spotify:track:123, as the app writes it
ShareSample ==
    B64UrlEncode(Str(<<"s", "p", "o", "t", "i", "f", "y", ":", "t", "r", "a", "c", "k", ":", "1", "2", "3">>),
                 FALSE)

\* the SONG_CACHE key of the request, `metadata:${encodedPath}`: the requests of
\* one behaviour that reach the cache carry one identifier
ShareKey == CHOOSE id \in Ids : TRUE

\* handleShareLink is entered with the path and the headers of the request
ShareStart(req, ua) ==
    [NoShare EXCEPT !.stage = "Start", !.src = req.src, !.ident = req.ident, !.ua = ua]

\* the rejection of the promise handleShareLink returned
Uncaught == [status |-> 500, page |-> "uncaught", message |-> ""]

\* the decode stage: musicUrl, or one of the 400 pages
ShareDecode ==
    /\ share.stage = "Start"
    /\ LET decoded == DecodeShareLink(share.ident)
       IN share' = IF decoded.musicUrl = NoUrl
                   THEN [share EXCEPT !.stage = "Error", !.resp = decoded.resp]
                   ELSE [share EXCEPT !.stage = "Decoded", !.musicUrl = decoded.musicUrl]
    /\ UNCHANGED <<rlVars, obsVars, metaVars, wk>>

\* a null result leaves the request where it was, to fetch again
StageAfterMetaRetry(returned) == IF returned = NoData THEN "Decoded" ELSE "MetadataFetched"

\* if (!metadata) the 404 page is returned, else the request goes on to render
StageAfterMeta(returned) == IF returned = NoData THEN "Error" ELSE "MetadataFetched"

\* await fetchAndCacheMetadata(musicUrl, pathAfterS, config, env) and the test of
\* its result: the cache read, the hit, the upstream GET, the cache write
ShareFetchMeta(getThrows, evicted, up, putThrows) ==
    /\ share.stage = "Decoded"
    /\ IF cacheBound /\ getThrows
       THEN /\ share' = [share EXCEPT !.stage = "Error", !.nMeta = @ + 1, !.nGet = @ + 1,
                                      !.resp = Uncaught]
            /\ cache' = cache
       ELSE IF cacheBound /\ Fresh(CacheGet(ShareKey, evicted), now)
       THEN /\ share' = [share EXCEPT !.stage = "MetadataFetched", !.nMeta = @ + 1,
                                      !.nGet = @ + 1,
                                      !.metadata = CacheGet(ShareKey, evicted).data]
            /\ cache' = cache
       ELSE LET metadata == IF up.kind = "response" /\ ResponseOk(up.status) /\ up.body \in Data
                            THEN up.body
                            ELSE NoData
                put == cacheBound /\ metadata # NoData
                returned == IF put /\ putThrows THEN NoData ELSE metadata
            IN /\ share' = [share EXCEPT
                              !.stage = StageAfterMeta(returned),
                              !.nMeta = @ + 1,
                              !.nGet = IF cacheBound THEN @ + 1 ELSE @,
                              !.nFetch = @ + 1,
                              !.nPut = IF put THEN @ + 1 ELSE @,
                              !.up = up,
                              !.metadata = returned,
                              !.resp = IF returned = NoData
                                       THEN ErrorResponse(404, "Song not found. Please try again.")
                                       ELSE NoResponse]
               /\ cache' = IF put /\ ~putThrows THEN CachePut(ShareKey, metadata) ELSE cache
    /\ UNCHANGED <<cacheBound, mpc, mcall, mret, reqs>>
    /\ UNCHANGED <<rlVars, obsVars, wk>>

\* request.headers.get('User-Agent') || '', isSocialMediaBot, and the renderer
ShareRender ==
    /\ share.stage = "MetadataFetched"
    /\ LET userAgent == IF share.ua.present THEN share.ua.value ELSE <<>>
           isBot == isSocialMediaBot(userAgent)
       IN share' = [share EXCEPT
                      !.stage = IF isBot THEN "BotRendered" ELSE "HumanShellRendered",
                      !.classified = TRUE,
                      !.isBot = isBot,
                      !.renderers = @ \cup {IF isBot THEN "bot" ELSE "human"},
                      !.resp = [status |-> 200, page |-> IF isBot THEN "ssr" ELSE "client",
                                message |-> ""]]
    /\ UNCHANGED <<rlVars, obsVars, metaVars, wk>>

\* the rendered page is returned
ShareReturn ==
    /\ share.stage \in {"BotRendered", "HumanShellRendered"}
    /\ share' = [share EXCEPT !.stage = "Terminal"]
    /\ UNCHANGED <<rlVars, obsVars, metaVars, wk>>

\* the entry a request stored at time t
CachedAt(metadata, t) ==
    [present |-> TRUE, data |-> metadata, timestamp |-> t, expiresAt |-> t + CACHE_TTL_MS]

\* the requests of SpecShare: every path with the core clients, and the path of
\* spotify:track:123 with every client
ShareInputs ==
    (ShareRequests \X CoreUASet) \cup
    ({r \in ShareRequests : r.ident = ShareSample} \X UASet)

ShareInit ==
    /\ now = StartTime
    /\ kvBound = TRUE
    /\ kv = [ip \in IPs |-> NoEntry]
    /\ pc = [p \in Procs |-> "idle"]
    /\ call = [p \in Procs |-> NoCall]
    /\ result = [p \in Procs |-> NoResult]
    /\ calls = 0
    /\ ticks = 0
    /\ ObsInit
    /\ cacheBound \in BOOLEAN
    /\ cache \in IF cacheBound
                THEN [Ids -> {NoCached, CachedAt("m1", StartTime - 1)}]
                ELSE {[id \in Ids |-> NoCached]}
    /\ mpc = [m \in Procs |-> "idle"]
    /\ mcall = [m \in Procs |-> NoMCall]
    /\ mret = [m \in Procs |-> NoMRet]
    /\ reqs = 0
    /\ share \in {ShareStart(in[1], in[2]) : in \in ShareInputs}
    /\ wk = NoWk

ShareNext ==
    \/ ShareDecode
    \/ \E getThrows \in BOOLEAN, evicted \in BOOLEAN, up \in UpAnswers, putThrows \in BOOLEAN :
          ShareFetchMeta(getThrows, evicted, up, putThrows)
    \/ ShareRender
    \/ ShareReturn

\* one /s/ request inside handleShareLink, from its path to its response
SpecShare == ShareInit /\ [][ShareNext]_vars

\* ------------------------------------------------------- the worker's fetch

\* requests one behaviour sends through fetch, one after the other
MaxFetches == 2

\* url.pathname values the routes are written against
Paths ==
    [health |-> Str(<<"/", "h", "e", "a", "l", "t", "h">>),
     root |-> Str(<<"/">>),
     share |-> Str(<<"/", "s", "/">>),
     playlist |-> Str(<<"/", "p", "/">>),
     song |-> Str(<<"/", "a", "p", "i", "/", "s", "o", "n", "g">>),
     donations |-> Str(<<"/", "a", "p", "i", "/", "d", "o", "n", "a", "t", "i", "o", "n", "s">>),
     kofi |-> Str(<<"/", "a", "p", "i", "/", "k", "o", "f", "i", "-", "w", "e", "b", "h", "o", "o", "k">>),
     version |-> Str(<<"/", "a", "p", "i", "/", "v", "e", "r", "s", "i", "o", "n">>)]

\* the routes of the static and content pages
StaticPaths ==
    {Str(<<"/", "p", "r", "i", "v", "a", "c", "y">>),
     Str(<<"/", "p", "r", "i", "v", "a", "c", "y", "-", "a", "p", "p">>),
     Str(<<"/", "a", "d", "s", ".", "t", "x", "t">>),
     Str(<<"/", "a", "p", "p", "-", "a", "d", "s", ".", "t", "x", "t">>),
     Str(<<"/", ".", "w", "e", "l", "l", "-", "k", "n", "o", "w", "n", "/", "a", "s", "s", "e", "t", "l", "i", "n", "k", "s", ".", "j", "s", "o", "n">>),
     Str(<<"/", ".", "w", "e", "l", "l", "-", "k", "n", "o", "w", "n", "/", "a", "p", "p", "l", "e", "-", "a", "p", "p", "-", "s", "i", "t", "e", "-", "a", "s", "s", "o", "c", "i", "a", "t", "i", "o", "n">>),
     Str(<<"/", "a", "b", "o", "u", "t">>),
     Str(<<"/", "c", "o", "n", "t", "a", "c", "t">>),
     Str(<<"/", "f", "a", "q">>),
     Str(<<"/", "h", "o", "w", "-", "i", "t", "-", "w", "o", "r", "k", "s">>),
     Str(<<"/", "f", "e", "a", "t", "u", "r", "e", "s">>)}

\* the routes above the rate limiter, /health left out
EarlyHandlerNoHealth(path) ==
    IF path \in StaticPaths THEN "static" ELSE ""

\* the routes above the rate limiter: /health, then the static and content pages
EarlyHandler(path) ==
    IF path = Paths.health THEN "handleHealth"
    ELSE IF path \in StaticPaths THEN "static"
    ELSE ""

\* the rate-limited routes, /p/ left out
RateLimitedNoPlaylist(path) ==
    StartsWith(path, Paths.share) \/ path = Paths.root

\* url.pathname.startsWith('/s/') || url.pathname.startsWith('/p/') || url.pathname === '/'
RateLimited(path) ==
    StartsWith(path, Paths.share) \/ StartsWith(path, Paths.playlist) \/ path = Paths.root

\* the routes below the rate limiter, in the order of the if chain
LateHandler(path, method) ==
    IF path = Paths.song THEN "handleApiProxy"
    ELSE IF path = Paths.donations THEN "handleDonationsAPI"
    ELSE IF path = Paths.kofi THEN "handleKofiWebhook"
    ELSE IF path = Paths.version THEN "handleVersion"
    ELSE IF method = "OPTIONS" THEN "handleOptionsRequest"
    ELSE IF StartsWith(path, Paths.share) THEN "handleShareLink"
    ELSE IF StartsWith(path, Paths.playlist) THEN "handlePlaylistLink"
    ELSE IF path = Paths.root THEN "handleHomepage"
    ELSE "notFound"

\* the headers addSecurityHeaders sets on a response
SecurityHeaders ==
    {"Content-Security-Policy", "X-Frame-Options", "X-Content-Type-Options",
     "Referrer-Policy", "Permissions-Policy", "Strict-Transport-Security"}

\* addSecurityHeaders(response): a copy of the response with the same status and
\* body and the security headers set over the headers it had
addSecurityHeaders(response) ==
    [response EXCEPT !.headers.names = @ \cup SecurityHeaders]

\* addSecurityHeaders(new Response(body, {status})): the response of a handler,
\* of the 404 and of the 500 of the catch
WResp(status, page, message) ==
    addSecurityHeaders([status |-> status, page |-> page, message |-> message,
                        headers |-> NoHeaders])

\* rateLimitResult.retryAfter || 60
RetryAfterOrDefault(res) == IF res.retryAfter # 0 THEN res.retryAfter ELSE 60

\* createRateLimitResponse(retryAfter), built at time t
createRateLimitResponse(retryAfter, t) ==
    [status |-> 429, page |-> "rateLimit", message |-> "",
     headers |-> [names |-> {"Retry-After", "Cache-Control", "X-RateLimit-Limit",
                             "X-RateLimit-Remaining", "X-RateLimit-Reset"},
                  retryAfter |-> retryAfter, limit |-> MAX_TOKENS, remaining |-> 0,
                  reset |-> t + retryAfter * 1000]]

\* new Response(body, {status}) with a body that is not null throws a TypeError
\* for a null body status
NullBodyStatus(status) == status \in {101, 204, 205, 304}

\* the answers of the upstream to the proxied call: a network error, or a status
ProxyAnswers ==
    {[kind |-> "netError", status |-> 0, body |-> NoData]} \cup
    {[kind |-> "response", status |-> st, body |-> "m1"] : st \in {200, 204, 304, 404, 500, 503}}

\* handleApiProxy(url, config): query is what url.searchParams.get('url') finds
handleApiProxy(query, up) ==
    IF query # "value"
    THEN [upCalls |-> 0, up |-> NoUp, escaped |-> FALSE,
          resp |-> WResp(400, "json", "Missing url parameter")]
    ELSE IF up.kind = "netError" \/ NullBodyStatus(up.status)
    THEN [upCalls |-> 1, up |-> up, escaped |-> FALSE,
          resp |-> WResp(500, "json", "Failed to fetch song data")]
    ELSE [upCalls |-> 1, up |-> up, escaped |-> FALSE,
          resp |-> WResp(up.status, "proxy", "")]

\* handlePlaylistLink(pathname, request, config)
handlePlaylistLink(path, ua, up) ==
    LET playlistId == SubSeq(path, 4, Len(path))
        userAgent == IF ua.present THEN ua.value ELSE <<>>
    IN IF playlistId = <<>>
       THEN [upCalls |-> 0, up |-> NoUp, escaped |-> FALSE,
             resp |-> WResp(400, "error", "Invalid playlist link.")]
       ELSE IF up.kind = "netError" \/ (ResponseOk(up.status) /\ up.body = "badjson")
       THEN [upCalls |-> 1, up |-> up, escaped |-> FALSE,
             resp |-> WResp(500, "error", "Failed to load playlist.")]
       ELSE IF ~ResponseOk(up.status)
       THEN [upCalls |-> 1, up |-> up, escaped |-> FALSE,
             resp |-> WResp(404, "error", "Playlist not found.")]
       ELSE IF ~isSocialMediaBot(userAgent)
       THEN [upCalls |-> 1, up |-> up, escaped |-> FALSE,
             resp |-> WResp(302, "redirect", "")]
       ELSE IF up.body = NoData
       THEN [upCalls |-> 1, up |-> up, escaped |-> TRUE, resp |-> NoWResp]
       ELSE [upCalls |-> 1, up |-> up, escaped |-> FALSE,
             resp |-> WResp(200, "playlistBot", "")]

\* the requests sent through fetch: every modelled route, a path next to each
\* route that is none, both methods, the query of /api/song, a browser and a
\* crawler, a caller with and without an address
WorkerRequests ==
    LET paths == {Paths.health, Str(<<"/", "h", "e", "a", "l", "t", "h", "/">>), Str(<<"/", "a", "b", "o", "u", "t">>),
                  Paths.root, Paths.share \o ShareSample, Paths.share \o Str(<<"!", "!", "!", "!">>),
                  Str(<<"/", "s">>), Paths.playlist \o Str(<<"a", "b", "c">>), Paths.playlist,
                  Paths.song, Str(<<"/", "n", "o", "p", "e">>)}
        src(path) == IF path = Paths.share \o ShareSample
                     THEN (CHOOSE r \in ShareRequests : r.ident = ShareSample).src
                     ELSE NoSrc
    IN {[path |-> path, method |-> method, query |-> "absent", ua |-> ua,
         ip |-> CHOOSE ip \in IPs : TRUE, src |-> src(path)] :
           path \in paths, method \in {"GET", "OPTIONS"}, ua \in CoreUASet} \cup
       {[path |-> Paths.song, method |-> "GET", query |-> query, ua |-> NoUA,
         ip |-> CHOOSE ip \in IPs : TRUE, src |-> NoSrc] : query \in {"empty", "value"}} \cup
       {[path |-> path, method |-> "GET", query |-> "absent", ua |-> NoUA,
         ip |-> NoIp, src |-> NoSrc] : path \in {Paths.root, Paths.health}}

\* fetch from its entry to the rate limiter's kv.get: the routes above the
\* limiter answer at once; a rate-limited route with env.RATE_LIMIT bound enters
\* checkLimit; every other request goes on to the routes below
WorkerBegin(req, getThrows) ==
    /\ wk.stage \in {"idle", "done"}
    /\ wk.n < MaxFetches
    /\ share' = NoShare
    /\ LET begun == [NoWk EXCEPT !.n = wk.n + 1, !.path = req.path, !.method = req.method,
                                 !.query = req.query, !.ua = req.ua, !.ip = req.ip,
                                 !.src = req.src]
       IN IF EarlyHandler(req.path) = "handleHealth"
          THEN /\ wk' = [begun EXCEPT !.stage = "done", !.handler = "handleHealth",
                                      !.resp = WResp(200, "text", "OK")]
               /\ UNCHANGED rlVars
          ELSE IF EarlyHandler(req.path) # ""
          THEN /\ wk' = [begun EXCEPT !.stage = "done", !.handler = EarlyHandler(req.path),
                                      !.resp = WResp(200, "static", "")]
               /\ UNCHANGED rlVars
          ELSE IF RateLimited(req.path) /\ kvBound
          THEN /\ CheckLimitGet(1, req.ip, 0, getThrows)
               /\ wk' = [begun EXCEPT !.checked = TRUE,
                                      !.stage = IF req.ip = NoIp \/ getThrows
                                                THEN "admitted" ELSE "limit"]
          ELSE /\ wk' = [begun EXCEPT !.stage = "admitted"]
               /\ UNCHANGED rlVars
    /\ UNCHANGED obsVars
    /\ UNCHANGED metaVars

\* checkLimit from the token test to its return
WorkerLimitPut(putThrows) ==
    /\ wk.stage = "limit"
    /\ CheckLimitPut(1, putThrows)
    /\ wk' = [wk EXCEPT !.stage = "admitted"]
    /\ UNCHANGED share
    /\ UNCHANGED obsVars

\* fetch below the rate limiter: the 429 of a rejected request, or the first
\* route of the if chain that matches, and its handler
WorkerDispatch ==
    /\ wk.stage = "admitted"
    /\ LET h == LateHandler(wk.path, wk.method)
       IN IF wk.checked /\ ~result[1].allowed
          THEN /\ wk' = [wk EXCEPT !.stage = "done",
                                   !.resp = createRateLimitResponse(
                                                RetryAfterOrDefault(result[1]), now)]
               /\ UNCHANGED share
          ELSE IF h = "handleApiProxy"
          THEN /\ \E up \in ProxyAnswers :
                     LET out == handleApiProxy(wk.query, up)
                     IN wk' = [wk EXCEPT !.stage = "done", !.handler = h,
                                         !.upCalls = out.upCalls, !.up = out.up,
                                         !.escaped = out.escaped, !.resp = out.resp]
               /\ UNCHANGED share
          ELSE IF h = "handleOptionsRequest"
          THEN /\ wk' = [wk EXCEPT !.stage = "done", !.handler = h,
                                   !.resp = WResp(204, "options", "")]
               /\ UNCHANGED share
          ELSE IF h = "handleShareLink"
          THEN /\ wk' = [wk EXCEPT !.stage = "share", !.handler = h]
               /\ share' = ShareStart([src |-> wk.src, ident |-> SubSeq(wk.path, 4, Len(wk.path))],
                                      wk.ua)
          ELSE IF h = "handlePlaylistLink"
          THEN /\ \E up \in UpAnswers :
                     LET out == handlePlaylistLink(wk.path, wk.ua, up)
                     IN wk' = [wk EXCEPT !.stage = "done", !.handler = h,
                                         !.upCalls = out.upCalls, !.up = out.up,
                                         !.escaped = out.escaped, !.resp = out.resp]
               /\ UNCHANGED share
          ELSE IF h = "handleHomepage"
          THEN /\ wk' = [wk EXCEPT !.stage = "done", !.handler = h,
                                   !.resp = WResp(200, "home", "")]
               /\ UNCHANGED share
          ELSE /\ h = "notFound"
               /\ wk' = [wk EXCEPT !.stage = "done",
                                   !.resp = WResp(404, "error", "Page not found.")]
               /\ UNCHANGED share
    /\ UNCHANGED <<rlVars, obsVars, metaVars>>

\* the promise handleShareLink returned settles: fetch returned it without
\* awaiting it, so its response is the response of fetch and its rejection is
\* the rejection of fetch
WorkerShareDone ==
    /\ wk.stage = "share"
    /\ share.stage \in {"Terminal", "Error"}
    /\ wk' = IF share.resp = Uncaught
             THEN [wk EXCEPT !.stage = "done", !.escaped = TRUE]
             ELSE [wk EXCEPT !.stage = "done", !.upCalls = share.nFetch, !.up = share.up,
                             !.resp = WResp(share.resp.status, share.resp.page,
                                            share.resp.message)]
    /\ UNCHANGED <<rlVars, obsVars, metaVars, share>>

\* time passes between two requests
WorkerTick ==
    /\ wk.stage \in {"idle", "done"}
    /\ Tick(1000)
    /\ UNCHANGED obsVars
    /\ UNCHANGED httpVars

WorkerInit ==
    /\ now = StartTime
    /\ kvBound \in BOOLEAN
    /\ kv \in IF kvBound
             THEN [IPs -> {NoEntry, WarmEntry(0), WarmEntry(1)}]
             ELSE {[ip \in IPs |-> NoEntry]}
    /\ pc = [p \in Procs |-> "idle"]
    /\ call = [p \in Procs |-> NoCall]
    /\ result = [p \in Procs |-> NoResult]
    /\ calls = 0
    /\ ticks = 0
    /\ ObsInit
    /\ cacheBound \in BOOLEAN
    /\ cache \in IF cacheBound
                THEN [Ids -> {NoCached, CachedAt("m1", StartTime - 1)}]
                ELSE {[id \in Ids |-> NoCached]}
    /\ mpc = [m \in Procs |-> "idle"]
    /\ mcall = [m \in Procs |-> NoMCall]
    /\ mret = [m \in Procs |-> NoMRet]
    /\ reqs = 0
    /\ HttpIdle

WorkerNext ==
    \/ \E req \in WorkerRequests, getThrows \in BOOLEAN : WorkerBegin(req, getThrows)
    \/ \E putThrows \in BOOLEAN : WorkerLimitPut(putThrows)
    \/ WorkerDispatch
    \/ WorkerShareDone
    \/ WorkerTick
    \/ (wk.stage = "share" /\ ShareNext)

\* requests through the worker's fetch, one at a time
SpecWorker == WorkerInit /\ [][WorkerNext]_vars

\* ------------------------------------------------- the address of the client

\* String.prototype.trim
Trim(s) ==
    LET inner == {k \in 1..Len(s) : s[k] \notin {9, 10, 11, 12, 13, 32}}
    IN IF inner = {}
       THEN <<>>
       ELSE SubSeq(s, CHOOSE k \in inner : \A j \in inner : k <= j,
                      CHOOSE k \in inner : \A j \in inner : j <= k)

\* the sentinel of a request without an address
Unknown == Str(<<"u", "n", "k", "n", "o", "w", "n">>)

\* X-Real-IP tried before X-Forwarded-For
getClientIpRealFirst(h) ==
    IF h.cf.present /\ h.cf.value # <<>> THEN h.cf.value
    ELSE IF h.xri.present /\ h.xri.value # <<>> THEN h.xri.value
    ELSE IF h.xff.present /\ h.xff.value # <<>> THEN Trim(Split(h.xff.value, Code(","))[1])
    ELSE Unknown

\* getClientIp(request): each `if (header)` takes a header that is there and is
\* not the empty string
getClientIp(h) ==
    IF h.cf.present /\ h.cf.value # <<>> THEN h.cf.value
    ELSE IF h.xff.present /\ h.xff.value # <<>> THEN Trim(Split(h.xff.value, Code(","))[1])
    ELSE IF h.xri.present /\ h.xri.value # <<>> THEN h.xri.value
    ELSE Unknown

\* the addresses of the requests, as the strings that name them in kv
IpNames ==
    {<<<<>>, NoIp>>, <<Unknown, "unknown">>,
     <<Str(<<"1", ".", "2", ".", "3", ".", "4">>), "1.2.3.4">>,
     <<Str(<<"5", ".", "6", ".", "7", ".", "8">>), "5.6.7.8">>}

\* the key part of `ratelimit:${clientIp}`
IpName(ip) == (CHOOSE row \in IpNames : row[1] = ip)[2]

\* the keys of RATE_LIMIT the requests can write
IpKeys == {row[2] : row \in IpNames} \ {NoIp}

\* the address headers of the requests: absent, empty, one address, a list, a
\* list whose first entry is empty
IpHeaderSets ==
    LET header(values) == {NoHeader} \cup {[present |-> TRUE, value |-> v] : v \in values}
    IN {[cf |-> cf, xff |-> xff, xri |-> xri] :
          cf \in header({<<>>, Str(<<"1", ".", "2", ".", "3", ".", "4">>)}),
          xff \in header({<<>>, Str(<<",">>), Str(<<",", " ", "1", ".", "2", ".", "3", ".", "4">>), Str(<<"5", ".", "6", ".", "7", ".", "8", " ", ",", " ", "1", ".", "2", ".", "3", ".", "4">>), Str(<<"1", ".", "2", ".", "3", ".", "4">>), Str(<<"5", ".", "6", ".", "7", ".", "8">>)}),
          xri \in header({<<>>, Str(<<"5", ".", "6", ".", "7", ".", "8">>)})}

\* requests on a rate-limited route that one behaviour sends
MaxIpReqs == 2

\* fetch on a rate-limited route up to the rate limiter's kv.get: the address
\* is taken from the headers and handed to checkLimit
IpBegin(h) ==
    /\ wk.stage \in {"idle", "admitted"}
    /\ wk.n < MaxIpReqs
    /\ LET clientIp == IpName(getClientIp(h))
       IN /\ CheckLimitGet(1, clientIp, 0, FALSE)
          /\ wk' = [NoWk EXCEPT !.n = wk.n + 1, !.path = Paths.root, !.method = "GET",
                                !.ipHeaders = h, !.ip = clientIp, !.checked = TRUE,
                                !.stage = IF clientIp = NoIp THEN "admitted" ELSE "limit"]
    /\ UNCHANGED share
    /\ UNCHANGED obsVars

\* checkLimit from the token test to its return
IpPut ==
    /\ wk.stage = "limit"
    /\ CheckLimitPut(1, FALSE)
    /\ wk' = [wk EXCEPT !.stage = "admitted"]
    /\ UNCHANGED share
    /\ UNCHANGED obsVars

IpInit ==
    /\ now = StartTime
    /\ kvBound = TRUE
    /\ kv \in [IpKeys -> {NoEntry, WarmEntry(0), WarmEntry(1)}]
    /\ pc = [p \in Procs |-> "idle"]
    /\ call = [p \in Procs |-> NoCall]
    /\ result = [p \in Procs |-> NoResult]
    /\ calls = 0
    /\ ticks = 0
    /\ ObsInit
    /\ MetaIdle

IpNext ==
    \/ \E h \in IpHeaderSets : IpBegin(h)
    \/ IpPut

\* requests on a rate-limited route, store bound and healthy, any address headers
SpecIp == IpInit /\ [][IpNext]_vars

\* ------------------------------------- overlapping checks of one IP, no refill

\* number of checks in a run of overlapping checks
MaxRaceCalls == 4

\* a check of either invocation begins; the observer counts the checks that
\* begin while the other invocation is between its kv.get and its kv.put
RaceGet(p) ==
    /\ calls < MaxRaceCalls
    /\ CheckLimitGet(p, SeqIp, 0, FALSE)
    /\ win' = [win EXCEPT !.overlaps = IF \E q \in Procs \ {p} : pc[q] = "put"
                                       THEN @ + 1 ELSE @]
    /\ UNCHANGED <<lastT, prev, burst, shadow>>
    /\ UNCHANGED httpVars

\* the check ends; the observer counts the admissions
RacePut(p) ==
    /\ CheckLimitPut(p, FALSE)
    /\ win' = [win EXCEPT !.n = IF result'[p].allowed THEN @ + 1 ELSE @]
    /\ UNCHANGED <<lastT, prev, burst, shadow>>
    /\ UNCHANGED httpVars

\* the store holds a live entry with 0, 1 or 2 tokens, written at StartTime;
\* prev keeps that entry, win counts from the first state on
RaceInit ==
    /\ now = StartTime
    /\ kvBound = TRUE
    /\ \E k \in {0, 1, 2} :
          /\ kv = [ip \in IPs |-> WarmEntry(k)]
          /\ prev = [valid |-> TRUE, tokens |-> k, lastRefill |-> StartTime, t |-> StartTime]
    /\ pc = [p \in Procs |-> "idle"]
    /\ call = [p \in Procs |-> NoCall]
    /\ result = [p \in Procs |-> NoResult]
    /\ calls = 0
    /\ ticks = 0
    /\ lastT = StartTime
    /\ burst = [start |-> StartTime, n |-> 0]
    /\ win = [open |-> TRUE, start |-> StartTime, n |-> 0, last |-> StartTime, overlaps |-> 0]
    /\ shadow = NoShadow
    /\ MetaIdle

RaceNext ==
    \/ \E p \in Procs : RaceGet(p)
    \/ \E p \in Procs : RacePut(p)

\* two invocations check one IP at one instant: healthy store, no refill
SpecRace == RaceInit /\ [][RaceNext]_vars

\* --------------------------------- the limiter over a store without expiry

\* number of checks in a run compared with the never-expiring store
MaxTtlCalls == 4

\* clock advances: a second, just under the time a bucket needs to fill, the
\* store's TTL
TtlTickSet == {1000, (MAX_TOKENS \div REFILL_RATE) * 1000 - 1000, RL_TTL_MS}

\* checkLimit at time t over a store that never drops the entry
ShadowCheck(s, t) ==
    LET state == IF s.present
                 THEN [tokens |-> s.tokens, lastRefill |-> s.lastRefill,
                       requestCount |-> s.requestCount]
                 ELSE InitialState(t)
        refilled == Refill(state, t)
        stored == IF HasToken(refilled) THEN Consume(refilled) ELSE refilled
    IN [present |-> TRUE, tokens |-> stored.tokens, lastRefill |-> stored.lastRefill,
        requestCount |-> stored.requestCount, allowed |-> HasToken(refilled)]

\* a check begins
TtlGet ==
    /\ calls < MaxTtlCalls
    /\ CheckLimitGet(1, SeqIp, 0, FALSE)
    /\ UNCHANGED obsVars
    /\ UNCHANGED httpVars

\* the check ends, and the same check is made over the never-expiring store
TtlPut ==
    /\ CheckLimitPut(1, FALSE)
    /\ shadow' = ShadowCheck(shadow, call[1].t)
    /\ UNCHANGED <<lastT, prev, burst, win>>
    /\ UNCHANGED httpVars

\* both stores hold the same entry, or none
TtlInit ==
    /\ now = StartTime
    /\ kvBound = TRUE
    /\ kv \in [IPs -> {NoEntry, WarmEntry(0), WarmEntry(1)}]
    /\ pc = [p \in Procs |-> "idle"]
    /\ call = [p \in Procs |-> NoCall]
    /\ result = [p \in Procs |-> NoResult]
    /\ calls = 0
    /\ ticks = 0
    /\ lastT = StartTime
    /\ prev = [valid |-> FALSE, tokens |-> 0, lastRefill |-> 0, t |-> 0]
    /\ burst = [start |-> StartTime, n |-> 0]
    /\ win = [open |-> FALSE, start |-> 0, n |-> 0, last |-> 0]
    /\ shadow = IF kv[SeqIp].present
                THEN [present |-> TRUE, tokens |-> kv[SeqIp].tokens,
                      lastRefill |-> kv[SeqIp].lastRefill,
                      requestCount |-> kv[SeqIp].requestCount, allowed |-> TRUE]
                ELSE NoShadow
    /\ MetaIdle

TtlNext ==
    \/ TtlGet
    \/ TtlPut
    \/ \E d \in TtlTickSet : Tick(d) /\ UNCHANGED obsVars /\ UNCHANGED httpVars

\* non-overlapping checks of one IP, side by side with a store without expiry
SpecTtl == TtlInit /\ [][TtlNext]_vars

\* ------------------------------------------------------------------ claims

\* C1: every state written to the store by checkLimit has 0 <= tokens <= 60,
\* whatever the interleaving of the checks, the store faults and the clock skew
TokenBucketBounds ==
    \A ip \in IPs : kv[ip].present => (0 <= kv[ip].tokens /\ kv[ip].tokens <= 60)

\* two checks read the last token before either wrote; one has written 0
TokenBucketBoundsWitness ==
    /\ pc[1] = "done" /\ result[1].allowed
    /\ pc[2] = "put" /\ call[2].state.tokens = 1
    /\ kv[SeqIp].present /\ kv[SeqIp].tokens = 0

\* C2: a check with no store or no IP, or whose kv.get or kv.put threw, returns
\* {allowed: true}
FailOpenAlways ==
    \A p \in Procs :
        (pc[p] = "done" /\ call[p].fault # "none") =>
            (result[p].allowed /\ result[p].retryAfter = 0)

\* kv.put threw while the stored bucket is empty and live: admitted all the same
FailOpenWitness ==
    \E p \in Procs :
        /\ pc[p] = "done" /\ call[p].fault = "put" /\ result[p].allowed
        /\ kv[SeqIp].present /\ kv[SeqIp].tokens = 0 /\ now < kv[SeqIp].expiresAt

\* C3: of the non-overlapping checks that follow, within the same second, one that
\* found no stored state, the k-th (k <= 60) is admitted and stores 60 - k tokens,
\* and the 61st and later are rejected with retryAfter 1
BurstOfSixty ==
    (pc[1] = "done" /\ lastT - burst.start < 1000) =>
        IF burst.n <= 60
        THEN /\ result[1].allowed
             /\ kv[SeqIp].present /\ kv[SeqIp].tokens = 60 - burst.n
        ELSE /\ ~result[1].allowed /\ result[1].retryAfter = 1
             /\ kv[SeqIp].present /\ kv[SeqIp].tokens = 0

\* the 61st check of the burst has been rejected
BurstOfSixtyWitness ==
    /\ pc[1] = "done" /\ lastT - burst.start < 1000
    /\ burst.n = 61 /\ ~result[1].allowed

\* C4: the admissions of non-overlapping checks in a window that has lasted T whole
\* seconds number at most 60 + T
AverageRateBound ==
    win.open => win.n <= 60 + (win.last - win.start) \div 1000

\* the bound is met: 61 admissions within one second
AverageRateBoundWitness ==
    win.open /\ win.n = 61 /\ win.last - win.start = 1000

\* C5: no more than 60 requests are admitted in any 60-second window
SixtyPerMinute ==
    (win.open /\ win.last - win.start < 60000) => win.n <= 60

\* C6 as stated: the count stored by the second of two consecutive checks is
\* min(60, tokens_before + floor(seconds between the two checks))
RefillByTimeBetweenChecks ==
    (pc[1] = "done" /\ prev.valid) =>
        kv[SeqIp].tokens = Min(60, prev.tokens + (lastT - prev.t) \div 1000)

\* C6 amended: the second check refills by the whole seconds since the stored
\* lastRefill, capped at 60, and then consumes one token if it has one
RefillSinceLastRefill ==
    (pc[1] = "done" /\ prev.valid) =>
        LET filled == Min(60, prev.tokens + Max(0, (lastT - prev.lastRefill) \div 1000))
        IN kv[SeqIp].tokens = IF filled >= 1 THEN filled - 1 ELSE 0

\* less than a second after the previous check, yet a second after lastRefill
RefillSinceLastRefillWitness ==
    /\ pc[1] = "done" /\ prev.valid
    /\ lastT - prev.t < 1000 /\ lastT - prev.lastRefill >= 1000
    /\ prev.tokens < 59

\* C7: a read that finds an entry with timestamp T returns its data with no
\* upstream GET when the read is less than 86,400,000 ms after T, and otherwise
\* misses and issues the upstream GET
CacheFreshness ==
    \A m \in Procs :
        (/\ mpc[m] = "done" /\ cacheBound /\ mcall[m].fault # "get"
         /\ mcall[m].seen.present /\ mcall[m].seen.timestamp > 0) =>
            IF mcall[m].readAt - mcall[m].seen.timestamp < 86400000
            THEN /\ mcall[m].hit /\ mcall[m].nFetch = 0
                 /\ mret[m].kind = "returned" /\ mret[m].value = mcall[m].seen.data
            ELSE ~mcall[m].hit /\ mcall[m].nFetch = 1

\* a hit on the last fresh millisecond
CacheFreshnessWitness ==
    \E m \in Procs :
        /\ mpc[m] = "done" /\ mcall[m].hit /\ mcall[m].nFetch = 0
        /\ mcall[m].seen.timestamp > 0
        /\ mcall[m].readAt - mcall[m].seen.timestamp = 86399999

\* C8: a call whose cache read came back without a hit issues exactly one upstream
\* GET; on a 2xx with metadata it writes the entry (store bound) and returns the
\* metadata; on a non-2xx or a fetch exception it returns null and writes nothing
SingleAttemptOnMiss ==
    \A m \in Procs :
        (mpc[m] = "done" /\ ~mcall[m].hit /\ mcall[m].fault # "get") =>
            /\ mcall[m].nFetch = 1
            /\ mcall[m].up = "ok" =>
                  /\ mret[m].kind = "returned" /\ mret[m].value = mcall[m].metadata
                  /\ cacheBound => mcall[m].wrote
            /\ mcall[m].up \in {"non2xx", "netError"} =>
                  /\ mret[m].kind = "returned" /\ mret[m].value = NoData
                  /\ ~mcall[m].wrote

\* C9: fetchAndCacheMetadata completes by returning metadata or null, never by
\* throwing
NeverThrows ==
    \A m \in Procs : mpc[m] = "done" => mret[m].kind = "returned"

\* C10: a /s/ request whose SONG_CACHE read or write threw, and whose upstream did
\* not fail, ends with the 200 rendered page
StoreFaultNotSurfaced ==
    \A m \in Procs :
        (/\ mpc[m] = "done" /\ mcall[m].fault \in {"get", "put"}
         /\ mcall[m].up \in {"none", "ok"}) =>
            /\ mret[m].status = 200
            /\ mret[m].page = IF mcall[m].bot THEN "ssr" ELSE "client"

\* C11 as stated: for every supported platform in any letter case, every type
\* and every id, the identifier the app made from platform:type:id decodes in
\* handleShareLink to the URL of the platform's template for that type and id
DecodeRoundTripAnyType ==
    (/\ share.stage \notin {"Idle", "Start"}
     /\ share.src.kind = "triple"
     /\ ToLowerCase(share.src.platform) \in PlatformKeys)
    => share.musicUrl = reconstructMusicUrl(share.src.platform, share.src.type, share.src.id)

\* C11, amended: the same for every type that contains no colon (the id may
\* contain colons, the identifier may come with its padding or without); the
\* identifiers of spotify:track:123 and tidal:album:456 decode to
\* https://open.spotify.com/track/123 and https://tidal.com/browse/album/456
DecodeRoundTrip ==
    /\ (/\ share.stage \notin {"Idle", "Start"}
        /\ share.src.kind = "triple"
        /\ ToLowerCase(share.src.platform) \in PlatformKeys
        /\ \A k \in 1..Len(share.src.type) : share.src.type[k] # Ch.colon)
       => /\ share.stage # "Error" \/ share.nMeta = 1
          /\ share.musicUrl =
                reconstructMusicUrl(share.src.platform, share.src.type, share.src.id)
    /\ (/\ share.stage \notin {"Idle", "Start"}
        /\ share.src.text = Str(<<"s", "p", "o", "t", "i", "f", "y", ":", "t", "r", "a", "c", "k", ":", "1", "2", "3">>))
       => share.musicUrl =
            Str(<<"h", "t", "t", "p", "s", ":", "/", "/", "o", "p", "e", "n", ".", "s", "p",
                  "o", "t", "i", "f", "y", ".", "c", "o", "m", "/", "t", "r", "a", "c", "k",
                  "/", "1", "2", "3">>)
    /\ (/\ share.stage \notin {"Idle", "Start"}
        /\ share.src.text = Str(<<"t", "i", "d", "a", "l", ":", "a", "l", "b", "u", "m", ":", "4", "5", "6">>))
       => share.musicUrl =
            Str(<<"h", "t", "t", "p", "s", ":", "/", "/", "t", "i", "d", "a", "l", ".", "c",
                  "o", "m", "/", "b", "r", "o", "w", "s", "e", "/", "a", "l", "b", "u", "m",
                  "/", "4", "5", "6">>)

\* an identifier without padding, of a platform written in capitals and an id
\* with a colon, was decoded to the URL that ends in the whole id
DecodeRoundTripWitness ==
    /\ share.stage = "Decoded"
    /\ share.src.platform = Str(<<"T", "I", "D", "A", "L">>)
    /\ share.src.type = Str(<<"a", "l", "b", "u", "m">>)
    /\ share.src.id = Str(<<"1", ":", "2">>)
    /\ \A k \in 1..Len(share.ident) : share.ident[k] # Ch.eq
    /\ share.musicUrl =
          Str(<<"h", "t", "t", "p", "s", ":", "/", "/", "t", "i", "d", "a", "l", ".", "c",
                "o", "m", "/", "b", "r", "o", "w", "s", "e", "/", "a", "l", "b", "u", "m",
                "/", "1", ":", "2">>)

\* C12: for every platform whose lower-cased form is no key of the URL table,
\* reconstructMusicUrl returns null and the /s/ request is answered with a 400
\* error page, with no upstream fetch and no access to the metadata cache
UnsupportedPlatformRejected ==
    (/\ share.stage \notin {"Idle", "Start"}
     /\ share.src.kind = "triple"
     /\ ToLowerCase(share.src.platform) \notin PlatformKeys)
    => /\ reconstructMusicUrl(share.src.platform, share.src.type, share.src.id) = NoUrl
       /\ share.stage = "Error"
       /\ share.resp.status = 400
       /\ share.resp.page = "error"
       /\ share.nMeta = 0 /\ share.nGet = 0 /\ share.nFetch = 0 /\ share.nPut = 0

\* C13: a /s/ request whose identifier is no Base64, or is the Base64 of a text
\* without a colon, with fewer than three colon-separated parts, or beginning
\* with http, is answered 400 with one of two fixed messages, and the request
\* issues no upstream fetch and neither reads nor writes the metadata cache
DecodeFailureIs400 ==
    (/\ share.stage \notin {"Idle", "Start"}
     /\ \/ share.src.kind = "raw"
        \/ \A k \in 1..Len(share.src.text) : share.src.text[k] # Ch.colon
        \/ Len(Split(share.src.text, Ch.colon)) < 3
        \/ StartsWith(share.src.text, Ch.http))
    => /\ share.stage = "Error"
       /\ share.resp.status = 400
       /\ share.resp.page = "error"
       /\ share.resp.message \in {"Invalid share link format.", "Invalid share link."}
       /\ share.nMeta = 0 /\ share.nGet = 0 /\ share.nFetch = 0 /\ share.nPut = 0
       /\ cache[ShareKey] \in {NoCached, CachedAt("m1", StartTime - 1)}

\* the identifier that encodes a whole URL was refused
DecodeFailureIs400Witness ==
    /\ share.stage = "Error"
    /\ share.src.text =
          Str(<<"h", "t", "t", "p", "s", ":", "/", "/", "o", "p", "e", "n", ".", "s", "p",
                "o", "t", "i", "f", "y", ".", "c", "o", "m", "/", "t", "r", "a", "c", "k",
                "/", "1", "2", "3">>)
    /\ share.resp = ErrorResponse(400, "Invalid share link.")
    /\ share.nFetch = 0

\* C14: when the identifier decodes and the upstream GET fails (a network error
\* or a status outside 200..299), or fetchAndCacheMetadata returns null for any
\* other reason, the response is the 404 page with its fixed message, whatever
\* the upstream's status and body and whatever the client's User-Agent
UpstreamFailureIs404 ==
    /\ (/\ share.nFetch = 1
        /\ \/ share.up.kind = "netError"
           \/ share.up.status < 200
           \/ share.up.status > 299)
       => /\ share.stage = "Error"
          /\ share.resp = ErrorResponse(404, "Song not found. Please try again.")
          /\ share.renderers = {}
    /\ (share.stage = "Error" /\ share.nMeta = 1 /\ share.resp # Uncaught)
       => share.resp = ErrorResponse(404, "Song not found. Please try again.")

\* a crawler's request met an upstream 500 that carried a body
UpstreamFailureIs404Witness ==
    /\ share.stage = "Error"
    /\ share.nFetch = 1
    /\ share.up = [kind |-> "response", status |-> 500, body |-> "m1"]
    /\ share.ua = [present |-> TRUE, value |-> UserAgents[1]]
    /\ share.resp.status = 404

\* C15: the classification of a request is a function of its User-Agent alone:
\* it is a bot iff the lower-cased string holds, at some offset, the lower-cased
\* form of one of the twelve signatures; facebookexternalhit/1.1 is a bot, the
\* iPhone browser (UserAgents[2]) is none, the empty and the absent string are none
BotClassification ==
    share.classified =>
        /\ Len(botPatterns) = 12
        /\ share.isBot =
              \E k \in 1..Len(botPatterns) :
                 \E off \in 0..(Len(share.ua.value) - Len(botPatterns[k])) :
                    \A j \in 1..Len(botPatterns[k]) :
                       ToLowerCase(share.ua.value)[off + j] = ToLowerCase(botPatterns[k])[j]
        /\ share.ua.value = Str(<<"f", "a", "c", "e", "b", "o", "o", "k", "e", "x", "t", "e", "r", "n", "a", "l", "h", "i", "t", "/", "1", ".", "1">>)
              => share.isBot
        /\ share.ua.value = UserAgents[2] => ~share.isBot
        /\ share.ua.value = <<>> => ~share.isBot

\* a signature written in capitals was found in the User-Agent
BotClassificationWitness ==
    /\ share.classified
    /\ share.ua.value = Str(<<"T", "W", "I", "T", "T", "E", "R", "B", "O", "T", "/", "1", ".", "0">>)
    /\ share.isBot
    /\ share.stage = "BotRendered"

\* C16: a /s/ request moves only along Start -> Decoded -> MetadataFetched ->
\* {BotRendered | HumanShellRendered} -> Terminal, or from Start or Decoded to
\* the error terminal; fetchAndCacheMetadata is called at most once and only
\* with a decoded URL; the client is classified only once metadata is there;
\* exactly one renderer runs, the bot renderer iff isSocialMediaBot; and the
\* render stages fetch nothing and leave the cache alone
ShareStateMachine ==
    /\ [](/\ share.nMeta <= 1
          /\ share.nFetch <= share.nMeta
          /\ share.nMeta = 1 => share.musicUrl # NoUrl
          /\ share.classified => (share.nMeta = 1 /\ share.metadata # NoData)
          /\ share.stage \in {"Idle", "Start", "Decoded", "MetadataFetched", "Error"}
                => (share.renderers = {} /\ ~share.classified)
          /\ share.stage \in {"BotRendered", "HumanShellRendered", "Terminal"}
                => /\ share.classified
                   /\ share.renderers =
                         IF isSocialMediaBot(share.ua.value) THEN {"bot"} ELSE {"human"})
    /\ [][share' # share =>
            /\ <<share.stage, share'.stage>> \in
                  {<<"Start", "Decoded">>, <<"Start", "Error">>,
                   <<"Decoded", "MetadataFetched">>, <<"Decoded", "Error">>,
                   <<"MetadataFetched", "BotRendered">>,
                   <<"MetadataFetched", "HumanShellRendered">>,
                   <<"BotRendered", "Terminal">>, <<"HumanShellRendered", "Terminal">>}
            /\ share.stage # "Decoded"
                  => /\ share'.nMeta = share.nMeta
                     /\ share'.nFetch = share.nFetch
                     /\ cache' = cache]_vars

\* a browser's request ran the whole path with one fetch and the human renderer
ShareStateMachineWitness ==
    /\ share.stage = "Terminal"
    /\ share.renderers = {"human"}
    /\ share.nMeta = 1
    /\ share.nFetch = 1
    /\ share.resp.status = 200

\* C17: while env.RATE_LIMIT is bound, a request to /s/*, /p/* or / enters a
\* handler, decodes or fetches only after checkLimit has run for it; a request
\* checkLimit rejected gets the 429 with Retry-After equal to the limiter's
\* retryAfter and the three X-RateLimit headers, enters no handler, decodes
\* nothing, calls no upstream and leaves the metadata cache unread and unwritten
AdmissionPrecedesHandlers ==
    /\ [](LET rated == \/ StartsWith(wk.path, Paths.share)
                       \/ StartsWith(wk.path, Paths.playlist)
                       \/ wk.path = Paths.root
              rejected == wk.checked /\ wk.stage \in {"admitted", "done"}
                             /\ ~result[1].allowed
          IN /\ (rated /\ kvBound /\ wk.stage \in {"admitted", "share", "done"}) => wk.checked
             /\ (rated /\ kvBound /\ ~wk.checked)
                   => (wk.handler = "" /\ share = NoShare /\ wk.upCalls = 0)
             /\ rejected => (wk.handler = "" /\ share = NoShare /\ wk.upCalls = 0)
             /\ (rejected /\ wk.stage = "done")
                   => /\ wk.resp.status = 429
                      /\ {"Retry-After", "X-RateLimit-Limit", "X-RateLimit-Remaining",
                          "X-RateLimit-Reset"} \subseteq wk.resp.headers.names
                      /\ wk.resp.headers.retryAfter = result[1].retryAfter
                      /\ wk.resp.headers.limit = MAX_TOKENS
                      /\ wk.resp.headers.remaining = 0)
    /\ [][(wk'.resp.status = 429 /\ wk' # wk)
            => /\ cache' = cache
               /\ share' = NoShare
               /\ wk'.resp.headers.reset = now + result[1].retryAfter * 1000]_vars

\* a share link of a caller whose bucket is empty is answered 429
AdmissionPrecedesHandlersWitness ==
    /\ wk.stage = "done"
    /\ wk.path = Paths.share \o ShareSample
    /\ wk.checked
    /\ wk.resp.status = 429
    /\ wk.resp.headers.retryAfter = 1
    /\ share = NoShare

\* C18: a request to /health is answered 200 in one step that reads and writes
\* no rate-limit state and no metadata state, whatever the bucket of the
\* caller, the stores and the upstream are like
HealthAlways200 ==
    /\ [](wk.path = Paths.health /\ wk.stage # "idle"
            => /\ wk.stage = "done"
               /\ wk.resp.status = 200
               /\ ~wk.checked
               /\ ~wk.escaped
               /\ wk.upCalls = 0
               /\ share = NoShare)
    /\ [][(wk'.path = Paths.health /\ wk' # wk)
            => /\ kv' = kv
               /\ calls' = calls
               /\ pc' = pc
               /\ cache' = cache]_vars

\* /health answers 200 to a caller whose bucket is empty
HealthAlways200Witness ==
    /\ wk.path = Paths.health
    /\ wk.stage = "done"
    /\ wk.resp.status = 200
    /\ wk.ip \in IPs
    /\ kvBound
    /\ kv[wk.ip].present
    /\ kv[wk.ip].tokens = 0
    /\ now < kv[wk.ip].expiresAt

\* C19: /api/song with a url parameter makes exactly one upstream call, leaves
\* the metadata cache alone and answers with the upstream's status, or 500 when
\* the fetch threw; without the parameter it answers 400 and calls no upstream
ProxyReturnsUpstreamStatus ==
    (wk.stage = "done" /\ wk.handler = "handleApiProxy")
        => /\ share = NoShare
           /\ wk.query = "absent" => (wk.resp.status = 400 /\ wk.upCalls = 0)
           /\ wk.query = "value"
                 => /\ wk.upCalls = 1
                    /\ wk.up.kind = "response" => wk.resp.status = wk.up.status
                    /\ wk.up.kind = "netError" => wk.resp.status = 500

\* C20: every request that fetch has finished with got a response from fetch;
\* no exception left fetch
NoExceptionEscapesFetch ==
    wk.stage = "done" => (~wk.escaped /\ wk.resp # NoWResp)

\* C21 as stated: the address is CF-Connecting-IP if the header is present,
\* else the first entry of X-Forwarded-For, trimmed, if that header is present,
\* else X-Real-IP if present, else "unknown"
ClientIpByPresence ==
    wk.n > 0 =>
        LET h == wk.ipHeaders
            expected == IF h.cf.present THEN h.cf.value
                        ELSE IF h.xff.present
                        THEN Trim(Split(h.xff.value, Code(","))[1])
                        ELSE IF h.xri.present THEN h.xri.value
                        ELSE Unknown
        IN wk.ip = IpName(expected)

\* C21: the address is the first of CF-Connecting-IP, the trimmed first entry
\* of X-Forwarded-For, and X-Real-IP whose header is present and not empty,
\* else "unknown"; a header further down the list never overrides one above
ClientIpPrecedence ==
    wk.n > 0 =>
        LET h == wk.ipHeaders
            set(x) == x.present /\ x.value # <<>>
            first == LET v == h.xff.value
                         stop == IF \E k \in 1..Len(v) : v[k] = Code(",")
                                 THEN CHOOSE k \in 1..Len(v) :
                                         v[k] = Code(",") /\ \A j \in 1..(k - 1) : v[j] # Code(",")
                                 ELSE Len(v) + 1
                     IN Trim(SubSeq(v, 1, stop - 1))
        IN /\ set(h.cf) => wk.ip = IpName(h.cf.value)
           /\ (~set(h.cf) /\ set(h.xff)) => wk.ip = IpName(first)
           /\ (~set(h.cf) /\ ~set(h.xff) /\ set(h.xri)) => wk.ip = IpName(h.xri.value)
           /\ (~set(h.cf) /\ ~set(h.xff) /\ ~set(h.xri)) => wk.ip = "unknown"

\* all three headers are there, the upper one differs from the lower two, and
\* CF-Connecting-IP is the address
ClientIpPrecedenceWitness ==
    /\ wk.n > 0
    /\ wk.ipHeaders.cf.present
    /\ wk.ipHeaders.xff.present
    /\ wk.ipHeaders.xri.present
    /\ wk.ipHeaders.xff.value # <<>>
    /\ wk.ipHeaders.xri.value # <<>>
    /\ IpName(Trim(Split(wk.ipHeaders.xff.value, Code(","))[1])) = "5.6.7.8"
    /\ wk.ip = "1.2.3.4"

\* C22: with the store bound and healthy, a request on a rate-limited route
\* whose headers give no address, or an empty one, is limited under the key of
\* "unknown"; every request on such a route goes through a bucket (it takes a
\* token or is rejected); and a check writes the entry of its own key only
UnknownClientsShareOneBucket ==
    /\ []((wk.n > 0 /\ wk.stage = "admitted")
            => /\ call[1].fault = "none"
               /\ call[1].ip \in IpKeys
               /\ kv[call[1].ip].present
               /\ getClientIp(wk.ipHeaders) \in {<<>>, Unknown} => call[1].ip = "unknown")
    /\ [][(pc[1] = "put" /\ pc'[1] = "done")
            => /\ \A k \in IpKeys \ {call[1].ip} : kv'[k] = kv[k]
               /\ result'[1].allowed => kv'[call[1].ip].tokens = call[1].state.tokens - 1
               /\ ~result'[1].allowed => call[1].state.tokens = 0]_vars

\* C23 as stated: from one write of an IP's state to the next, whatever
\* happened in between (the entry may have expired and been created anew), the
\* stored requestCount goes up by one when the request was admitted and stays
\* when it was rejected, so it never goes down
RequestCountMonotonic ==
    [][(pc[1] = "put" /\ pc'[1] = "done" /\ kv[SeqIp].present)
          => /\ kv'[SeqIp].requestCount >= kv[SeqIp].requestCount
             /\ kv'[SeqIp].requestCount =
                   kv[SeqIp].requestCount + (IF result'[1].allowed THEN 1 ELSE 0)]_vars

\* C23: for non-overlapping checks, a check that found the entry stored writes
\* its requestCount plus one when it admits and unchanged when it rejects; a
\* check that found no entry (none yet, or expired) starts the count again at one
RequestCountPerEntry ==
    [][(pc[1] = "put" /\ pc'[1] = "done")
          => IF burst.n > 0
             THEN /\ kv[SeqIp].present
                  /\ kv'[SeqIp].requestCount >= kv[SeqIp].requestCount
                  /\ kv'[SeqIp].requestCount =
                        kv[SeqIp].requestCount + (IF result'[1].allowed THEN 1 ELSE 0)
             ELSE /\ result'[1].allowed
                  /\ kv'[SeqIp].requestCount = 1]_vars

\* sixty admitted checks were counted and a rejected one left the count alone
RequestCountPerEntryWitness ==
    /\ pc[1] = "done"
    /\ ~result[1].allowed
    /\ burst.n = 62
    /\ kv[SeqIp].requestCount = 60

\* C24: with no refill, checks that never overlap admit at most the n tokens
\* stored and leave n minus the admissions; every overlap can add at most one
\* admission; and a check that read t >= 1 tokens is admitted and stores t - 1
\* even though the other invocation, which read the same t, has stored t - 1
\* already (kv.put overwrites, it does not compare)
RaceAdmitsTwice ==
    /\ [](/\ win.overlaps = 0 => win.n <= prev.tokens
          /\ (win.overlaps = 0 /\ \A p \in Procs : pc[p] # "put")
                => kv[SeqIp].tokens = prev.tokens - win.n
          /\ win.n <= prev.tokens + win.overlaps
          /\ kv[SeqIp].tokens >= 0)
    /\ [][\A p \in Procs :
            (pc[p] = "put" /\ pc'[p] = "done" /\ call[p].state.tokens >= 1)
               => /\ result'[p].allowed
                  /\ kv'[SeqIp].tokens = call[p].state.tokens - 1]_vars

\* one token was stored, two overlapping checks were both admitted, and the
\* store holds zero tokens and one more counted request
RaceAdmitsTwiceWitness ==
    /\ prev.tokens = 1
    /\ win.n = 2
    /\ calls = 2
    /\ \A p \in Procs : pc[p] = "done" /\ result[p].allowed
    /\ kv[SeqIp].tokens = 0
    /\ kv[SeqIp].requestCount = MAX_TOKENS

\* C25: a request that fetched and stores its result replaces the whole entry,
\* whatever is stored: the data it fetched with the time of its own write, an
\* entry that is fresh; so after two requests that both missed and both
\* fetched, the entry is the record of the one that wrote last
NoSingleFlight ==
    [][\A m \in Procs :
          (mpc[m] = "put" /\ mpc'[m] = "done" /\ mcall'[m].wrote)
             => /\ mcall[m].nFetch = 1
                /\ mcall[m].metadata # NoData
                /\ cache'[mcall[m].id] =
                      [present |-> TRUE, data |-> mcall[m].metadata, timestamp |-> now,
                       expiresAt |-> now + CACHE_TTL_MS]
                /\ Fresh(cache'[mcall[m].id], now)]_vars

\* two requests for one identifier both found nothing stored, both fetched,
\* got different metadata at different times and both wrote; the entry is the
\* second writer's
NoSingleFlightWitness ==
    /\ \A m \in Procs : /\ mpc[m] = "done"
                        /\ mcall[m].id = mcall[1].id
                        /\ mcall[m].seen = NoCached
                        /\ ~mcall[m].hit
                        /\ mcall[m].nFetch = 1
                        /\ mcall[m].wrote
    /\ mcall[1].metadata # mcall[2].metadata
    /\ cache[mcall[1].id].data = mcall[2].metadata
    /\ cache[mcall[1].id].timestamp = now
    /\ now > StartTime
    /\ ticks = 1

\* C26: a check that found the state stored writes lastRefill = its Date.now()
\* when floor(seconds since the stored lastRefill * REFILL_RATE) > 0 and writes
\* the stored lastRefill back otherwise, whether it admits or rejects; a check
\* that found no state writes its own Date.now()
LastRefillRule ==
    [][(pc[1] = "put" /\ pc'[1] = "done")
          => LET stored == kv[SeqIp]
                 t == call[1].t
                 added == ((t - stored.lastRefill) * REFILL_RATE) \div 1000
             IN IF burst.n = 0
                THEN kv'[SeqIp].lastRefill = t
                ELSE /\ added > 0 => kv'[SeqIp].lastRefill = t
                     /\ added <= 0 => kv'[SeqIp].lastRefill = stored.lastRefill]_vars

\* checks at 0 ms, 500 ms and 1000 ms: the second left lastRefill alone, so the
\* third found a full second elapsed, refilled and moved lastRefill
LastRefillRuleWitness ==
    /\ pc[1] = "done"
    /\ burst.n = 3
    /\ now = StartTime + 1000
    /\ lastT = now
    /\ prev.valid
    /\ prev.t = StartTime + 500
    /\ prev.lastRefill = StartTime
    /\ kv[SeqIp].lastRefill = now
    /\ kv[SeqIp].tokens = prev.tokens

\* C27: a rejection carries retryAfter = 1; the next check of that IP, if it
\* comes retryAfter seconds or more after the rejected one, finds a token and
\* is admitted, however many checks were rejected before
RetryHintSound ==
    /\ []((pc[1] = "done" /\ ~result[1].allowed) => result[1].retryAfter = 1)
    /\ [][/\ (pc[1] = "done" /\ ~result[1].allowed /\ pc'[1] = "put"
                 /\ now >= lastT + result[1].retryAfter * 1000)
             => call'[1].state.tokens >= 1
          /\ (pc[1] = "put" /\ pc'[1] = "done")
             => result'[1].allowed = (call[1].state.tokens >= 1)]_vars

\* two checks were rejected at one instant and the third, one second later,
\* was admitted
RetryHintSoundWitness ==
    /\ pc[1] = "done"
    /\ result[1].allowed
    /\ calls = 3
    /\ ticks = 1
    /\ now = StartTime + 1000
    /\ lastT = now
    /\ prev.t = StartTime
    /\ prev.tokens = 0
    /\ kv[SeqIp].requestCount = MAX_TOKENS + 1

\* C28: handlePlaylistLink answers 400 to an empty id without calling the
\* upstream; for any other id it calls the upstream once and leaves the metadata
\* cache alone; a status outside 200..299 gives the 404 page and a fetch
\* exception the 500 page, whatever the upstream sent; the client is classified
\* and a page or redirect is built only after a 2xx answer
PlaylistHandling ==
    /\ []((wk.stage = "done" /\ wk.handler = "handlePlaylistLink")
            => /\ share = NoShare
               /\ IF Len(wk.path) <= 3
                  THEN wk.resp.status = 400 /\ wk.upCalls = 0 /\ wk.up = NoUp
                  ELSE /\ wk.upCalls = 1
                       /\ wk.up.kind = "netError"
                             => wk.resp = WResp(500, "error", "Failed to load playlist.")
                       /\ (wk.up.kind = "response"
                              /\ (wk.up.status < 200 \/ wk.up.status > 299))
                             => wk.resp = WResp(404, "error", "Playlist not found.")
                       /\ (wk.escaped \/ wk.resp.page \in {"redirect", "playlistBot"})
                             => /\ wk.up.kind = "response"
                                /\ 200 <= wk.up.status /\ wk.up.status <= 299)
    /\ [][(wk'.handler = "handlePlaylistLink" /\ wk' # wk) => cache' = cache]_vars

\* the upstream answered 500 with a body and the crawler got the 404 page
PlaylistHandlingWitness ==
    /\ wk.stage = "done"
    /\ wk.handler = "handlePlaylistLink"
    /\ wk.ua.present
    /\ wk.up.status = 500
    /\ wk.up.body = "m1"
    /\ wk.resp.status = 404
    /\ cacheBound

\* C29: after every check, the limiter over the expiring store and the limiter
\* over the never-expiring store have made the same decision and hold the same
\* tokens and lastRefill
TtlIsInvisible ==
    (pc[1] # "put")
        => /\ kv[SeqIp].present = shadow.present
           /\ kv[SeqIp].tokens = shadow.tokens
           /\ kv[SeqIp].lastRefill = shadow.lastRefill
           /\ calls > 0 => result[1].allowed = shadow.allowed

\* an entry expired and was created anew: the counts of admitted requests
\* differ, the tokens and lastRefill do not
TtlIsInvisibleWitness ==
    /\ pc[1] = "done"
    /\ calls >= 2
    /\ result[1].allowed
    /\ kv[SeqIp].requestCount = 1
    /\ shadow.requestCount > 1
    /\ kv[SeqIp].tokens = MAX_TOKENS - 1
    /\ kv[SeqIp].lastRefill = now

\* C30: every response that fetch returns carries the security headers
\* Content-Security-Policy, X-Frame-Options, X-Content-Type-Options,
\* Referrer-Policy and Strict-Transport-Security, the 429 of the rate limiter
\* included.
SecurityHeadersOnEveryResponse ==
    (wk.stage = "done" /\ ~wk.escaped)
        => {"Content-Security-Policy", "X-Frame-Options", "X-Content-Type-Options",
            "Referrer-Policy", "Strict-Transport-Security"} \subseteq wk.resp.headers.names

====
